---- MODULE Spec2Model ----
(***************************************************************************)
(* Flow token pool (TokenPool, package flow) and generation handler        *)
(* (GenerationHandler): the credential directory, the in-memory pool, the  *)
(* file watcher, the refresh worker, generation requests and the video     *)
(* polling loop.                                                           *)
(***************************************************************************)
EXTENDS Integers, Sequences, FiniteSets, TLC

\* ------------------------------------------------------------------ bounds
\* The largest number of images a request carries.
\* Largest MaxPollAttempts of the polling loops whose progress chunks are
\* followed.
ProgressAttempts == 29

ImagesBound == 3
\* The largest MaxPollAttempts of a request followed statement by statement.
FlowAttempts == 2
\* Budget of directory changes and administrative calls in one behaviour.
MaxOps == 3
\* Capacity assumed for the watcher's event channel.
MaxEvents == 2
\* The largest configured MaxPollAttempts.
AttemptsBound == 4
\* Cap on FlowToken.ErrorCount (the code lets it grow without bound).
MaxErrorCount == 3

\* ------------------------------------------------------- program constants
\* The health threshold: `t.ErrorCount < 3`, `token.ErrorCount >= 3`.
Threshold == 3

VARIABLES
    files,        \* the directory <dataDir>/at: file name -> content
    tokens,       \* TokenPool.tokens: tokenID -> *FlowToken (index into heap)
    fileIndex,    \* TokenPool.fileIndex: fileName -> tokenID
    heap,         \* the FlowToken objects ever allocated, by address
    watching,     \* TokenPool.watcher is set and watchLoop runs
    events,       \* watcher.Events: the file events not yet handled
    wtPc,         \* watchLoop: "wait" | "sleep" (inside handleFileEvent's Sleep)
    wtFile,       \* event.Name of the event being handled
    pending,      \* FlowToken addresses with a `go refreshSingleToken` not yet run
    ops,          \* directory changes and administrative calls made so far
    ret,          \* what the last administrative call returned
    wkPc,         \* refresh worker: "idle" | "loop" | "call" (inside STToAT)
    wkTodo,       \* refreshAllAT: the tokens of its snapshot not yet visited
    wkCur,        \* refreshAllAT: the token being refreshed (0: none)
    reqPc,        \* HandleGeneration: the step each request is at
    reqTok,       \* HandleGeneration: the token each request selected (0: none)
    reqType,      \* modelConfig.Type of each request
    reqRes,       \* the GenerationResult each request returned
    maxAttempts,  \* h.client.config.MaxPollAttempts
    pollPc,       \* pollVideoResult: "off" | "sleep" | "query" | "done"
    pollI,        \* pollVideoResult: the loop variable i
    pollSleeps,   \* the time.Sleep calls pollVideoResult has made
    pollHist,     \* what CheckVideoStatus answered, call by call
    pollRet,      \* what pollVideoResult returned
    pollLog,      \* whether pollHist is being recorded
    stream,       \* streamCb != nil
    chunks,       \* the chunks passed to streamCb, in order
    flPc,         \* HandleGeneration, statement by statement: where it is
    flTok,        \* its token (0: none)
    flReq,        \* its request and model configuration
    flUp,         \* the images it has uploaded so far
    flTier,       \* its local variable userTier
    flRes,        \* the GenerationResult it returned
    calls,        \* the transport calls it has made, in order
    crPc,         \* the updateTokenCredits goroutine it started
    mu,           \* token.mu of the first token: the thread that holds it
    incPc,        \* each thread that records a failure: where it is
    incTmp,       \* the value each such thread loaded for ErrorCount++
    stPc,         \* Stop: "off" | "closed" (stopChan is closed) | "returned"
    tick,         \* ticker.C of the refresh worker holds a tick
    statsPc,      \* Stats: "off" | "loop" (holds p.mu.RLock) | "token" | "done"
    statsTodo,    \* Stats: the tokens of p.tokens not yet visited
    statsCur      \* Stats: the token whose t.mu.RLock it is at (0: none)

storeVars == <<files, tokens, fileIndex, watching, events, wtPc, wtFile, ops, ret>>
workerVars == <<wkPc, wkTodo, wkCur>>
reqVars == <<reqPc, reqTok, reqType, reqRes>>
pollVars == <<maxAttempts, pollPc, pollI, pollSleeps, pollHist, pollRet>>
flowVars == <<flPc, flTok, flReq, flUp, flTier, flRes, calls, crPc>>
\* What the pool, the worker, the coarse requests and the polling loop's
\* bookkeeping leave alone.
countVars == <<mu, incPc, incTmp>>
stopVars == <<stPc, tick>>
statsVars == <<statsPc, statsTodo, statsCur>>
sideVars == <<flowVars, countVars, stopVars, statsVars>>
newVars == <<sideVars, pollLog, stream, chunks>>

vars == <<files, tokens, fileIndex, heap, watching, events, wtPc, wtFile,
          pending, ops, ret, wkPc, wkTodo, wkCur, reqPc, reqTok, reqType, reqRes,
          maxAttempts, pollPc, pollI, pollSleeps, pollHist, pollRet, pollLog,
          stream, chunks, flPc, flTok, flReq, flUp, flTier, flRes, calls, crPc,
          mu, incPc, incTmp, stPc, tick, statsPc, statsTodo, statsCur>>

\* ------------------------------------------------------------ file names
\* File names and token IDs are sequences of characters.
TxtExt == <<".", "t", "x", "t">>
FileA == <<"a">> \o TxtExt
FileB == <<"b">> \o TxtExt
README == <<"R", "E", "A", "D", "M", "E", ".", "m", "d">>

\* The durable secrets (session tokens) of the model.
Secrets == {"stA", "stB"}

\* generateTokenID: hex(md5(st)), tabulated for the model's secrets.
generateTokenID(st) ==
    CASE st = "stA" -> <<"9","8","0","8","9","4","a","7","9","6","a","9","7","9","b","1",
                         "4","5","5","7","1","6","e","d","0","e","0","3","6","9","5","2">>
      [] st = "stB" -> <<"2","e","6","c","4","6","2","1","6","5","8","c","b","5","0","3",
                         "a","5","7","9","8","e","2","f","8","3","2","1","7","b","d","3">>

IDs == {generateTokenID(st) : st \in Secrets}

\* tokenID[:16]
Prefix16(tokenID) == SubSeq(tokenID, 1, 16)

\* strings.HasPrefix
HasPrefix(s, prefix) ==
    /\ Len(s) >= Len(prefix)
    /\ SubSeq(s, 1, Len(prefix)) = prefix

\* fmt.Sprintf("%s.txt", tokenID[:16]) in saveTokenToFile
TokenFileName(tokenID) == Prefix16(tokenID) \o TxtExt

\* unicode lower-casing of the letters the model's names use
ToLower(c) ==
    CASE c = "R" -> "r" [] c = "E" -> "e" [] c = "A" -> "a"
      [] c = "D" -> "d" [] c = "M" -> "m" [] OTHER -> c

\* strings.EqualFold
EqualFold(s, t) ==
    /\ Len(s) = Len(t)
    /\ \A i \in 1..Len(s) : ToLower(s[i]) = ToLower(t[i])

\* The names a user may give a file, and every name the directory can hold.
UserFiles == {FileA, FileB, README}
FileNames == UserFiles \cup {TokenFileName(id) : id \in IDs}

\* os.ReadDir returns the entries sorted by file name (byte order).
SortedNames ==
    <<TokenFileName(generateTokenID("stB")), TokenFileName(generateTokenID("stA")),
      README, FileA, FileB>>

InDir(dir, name) == name \in DOMAIN dir

ReadDir(dir) == SelectSeq(SortedNames, LAMBDA n : n \in DOMAIN dir)

\* ---------------------------------------------------------- file contents
\* A content is described by what extractSessionToken looks at: the capture
\* of the session-token pattern ("" when the pattern does not match), the
\* trimmed text, whether it contains "=", and its trimmed length.
CookieA == [cookie |-> "stA", raw |-> "cookieA", eq |-> TRUE, len |-> 180]
BareB == [cookie |-> "", raw |-> "stB", eq |-> FALSE, len |-> 101]
Short == [cookie |-> "", raw |-> "short", eq |-> FALSE, len |-> 100]
Contents == {CookieA, BareB, Short}

extractSessionToken(cookie) ==
    IF cookie.cookie # "" THEN cookie.cookie
    ELSE IF ~cookie.eq /\ cookie.len > 100 THEN cookie.raw
    ELSE ""

\* ------------------------------------------------------------- FlowToken
\* &FlowToken{ID: tokenID, ST: st}: every other field has its zero value.
\* expSoon stands for time.Now().After(ATExpires.Add(-5*time.Minute)).
\* from is no field of the struct: it records the file the token was read
\* from or saved to (what the "loaded from" log lines print), <<>> if none.
NewFlowToken(tokenID, st, from) ==
    [ID |-> tokenID, ST |-> st, AT |-> "", expSoon |-> TRUE,
     ErrorCount |-> 0, Disabled |-> FALSE, ProjectID |-> "", LastUsed |-> 0,
     UserPaygateTier |-> "", from |-> from]

Without(f, k) == [x \in (DOMAIN f) \ {k} |-> f[x]]

With(f, k, v) == [x \in (DOMAIN f) \cup {k} |-> IF x = k THEN v ELSE f[x]]

\* A file event as fsnotify reports it: Op is a set of flags.
Event(op, name) == [Op |-> {op}, Name |-> name]

\* The events channel after the directory change `op` on `name`.
Notify(op, name) ==
    IF watching THEN Append(events, Event(op, name)) ELSE events

CanNotify == watching => Len(events) < MaxEvents

\* pollVideoResult has not returned.
NoReturn == [url |-> "", err |-> ""]

\* The requests in flight at once.
Reqs == {"r1"}

NoResult == [Success |-> FALSE, Type |-> "", URL |-> "", Error |-> ""]

\* ------------------------------------------------------------------ Init
InitDirs ==
    UNION {[d -> {CookieA, BareB}] : d \in SUBSET {FileA, FileB}}

\* NewTokenPool: empty maps, no watcher.
EmptyPool ==
    /\ tokens = <<>>
    /\ fileIndex = <<>>
    /\ heap = <<>>
    /\ watching = FALSE
    /\ events = <<>>
    /\ wtPc = "wait"
    /\ wtFile = <<>>
    /\ pending = {}
    /\ ops = 0
    /\ ret = [op |-> "NewTokenPool", val |-> 0, err |-> ""]

\* The refresh worker between two ticks, no request in flight.
Quiet ==
    /\ wkPc = "idle"
    /\ wkTodo = {}
    /\ wkCur = 0
    /\ reqPc = [r \in Reqs |-> "idle"]
    /\ reqTok = [r \in Reqs |-> 0]
    /\ reqType = [r \in Reqs |-> ""]
    /\ reqRes = [r \in Reqs |-> NoResult]

\* pollVideoResult not entered.
NoPoll ==
    /\ pollPc = "off"
    /\ pollI = 0
    /\ pollSleeps = 0
    /\ pollHist = <<>>
    /\ pollRet = NoReturn
    /\ chunks = <<>>

\* A request without images that does not stream.
NoRequest == [Type |-> "", VideoType |-> "", Images |-> 0, MinImages |-> 0, MaxImages |-> 0]

\* No request is followed statement by statement.
NoFlow ==
    /\ flPc = "idle"
    /\ flTok = 0
    /\ flReq = NoRequest
    /\ flUp = 0
    /\ flTier = ""
    /\ flRes = NoResult
    /\ calls = <<>>
    /\ crPc = "off"

\* The threads that record a failure against the first token: a request in
\* handleImageGeneration, one in handleVideoGeneration, the refresh worker
\* and a refreshSingleToken goroutine.
Incrementers == {"image", "video", "worker", "single"}

\* No thread is followed through its ErrorCount++.
NoCount ==
    /\ mu = ""
    /\ incPc = [t \in Incrementers |-> "off"]
    /\ incTmp = [t \in Incrementers |-> 0]

\* Stop has not been called and the ticker has not fired.
NoStop ==
    /\ stPc = "off"
    /\ tick = FALSE

\* Stats is not running.
NoStats ==
    /\ statsPc = "off"
    /\ statsTodo = {}
    /\ statsCur = 0

\* Nothing but the pool, the worker and the coarse requests is followed.
NoSide == NoFlow /\ NoCount /\ NoStop /\ NoStats

Init ==
    /\ files \in InitDirs
    /\ EmptyPool
    /\ Quiet
    /\ NoPoll
    /\ NoSide
    /\ pollLog = FALSE
    /\ stream = FALSE
    /\ maxAttempts = AttemptsBound

\* ------------------------------------------------------- the environment
\* A user writes `content` to the file `name` of the directory.
EnvWriteFile(name, content) ==
    /\ ops < MaxOps
    /\ CanNotify
    /\ files' = With(files, name, content)
    /\ events' = Notify(IF InDir(files, name) THEN "Write" ELSE "Create", name)
    /\ ops' = ops + 1
    /\ UNCHANGED <<tokens, fileIndex, heap, watching, wtPc, wtFile, pending,
                   ret, workerVars, reqVars, pollVars, newVars>>

\* A user deletes the file `name`.
EnvRemoveFile(name) ==
    /\ ops < MaxOps
    /\ CanNotify
    /\ InDir(files, name)
    /\ files' = Without(files, name)
    /\ events' = Notify("Remove", name)
    /\ ops' = ops + 1
    /\ UNCHANGED <<tokens, fileIndex, heap, watching, wtPc, wtFile, pending,
                   ret, workerVars, reqVars, pollVars, newVars>>

\* A user moves the file `name` out of the directory.
EnvRenameFile(name) ==
    /\ ops < MaxOps
    /\ CanNotify
    /\ InDir(files, name)
    /\ files' = Without(files, name)
    /\ events' = Notify("Rename", name)
    /\ ops' = ops + 1
    /\ UNCHANGED <<tokens, fileIndex, heap, watching, wtPc, wtFile, pending,
                   ret, workerVars, reqVars, pollVars, newVars>>

\* ------------------------------------------------------------ LoadFromDir
\* LoadFiles without the `exists` test: a token is registered, and counted,
\* for every file that holds a session token.
RECURSIVE LoadFilesNoCheck(_, _, _, _, _)
LoadFilesNoCheck(names, dir, tk, hp, loaded) ==
    IF names = <<>> THEN [tokens |-> tk, heap |-> hp, loaded |-> loaded]
    ELSE LET st == extractSessionToken(dir[Head(names)])
             tokenID == generateTokenID(st)
         IN  IF st = "" THEN LoadFilesNoCheck(Tail(names), dir, tk, hp, loaded)
             ELSE LoadFilesNoCheck(Tail(names), dir,
                                   With(tk, tokenID, Len(hp) + 1),
                                   Append(hp, NewFlowToken(tokenID, st, Head(names))),
                                   loaded + 1)

\* The loop body of LoadFromDir over the listing `names`: tk and hp are the
\* pool map and the heap so far, loaded the count so far.
RECURSIVE LoadFiles(_, _, _, _, _)
LoadFiles(names, dir, tk, hp, loaded) ==
    IF names = <<>> THEN [tokens |-> tk, heap |-> hp, loaded |-> loaded]
    ELSE LET st == extractSessionToken(dir[Head(names)])
             tokenID == generateTokenID(st)
         IN  IF st = "" THEN LoadFiles(Tail(names), dir, tk, hp, loaded)
             ELSE IF tokenID \in DOMAIN tk
                  THEN LoadFiles(Tail(names), dir, tk, hp, loaded)
                  ELSE LoadFiles(Tail(names), dir,
                                 With(tk, tokenID, Len(hp) + 1),
                                 Append(hp, NewFlowToken(tokenID, st, Head(names))),
                                 loaded + 1)

LoadFromDir ==
    /\ ops < MaxOps
    /\ LET r == LoadFiles(ReadDir(files), files, tokens, heap, 0)
       IN  /\ tokens' = r.tokens
           /\ heap' = r.heap
           /\ ret' = [op |-> "LoadFromDir", val |-> r.loaded, err |-> ""]
    /\ ops' = ops + 1
    /\ UNCHANGED <<files, fileIndex, watching, events, wtPc, wtFile, pending,
                   workerVars, reqVars, pollVars, newVars>>

\* ---------------------------------------------------------- AddFromCookie
\* saveTokenToFile: the directory after writing `cookie` to <tokenID[:16]>.txt;
\* ioOk is whether os.MkdirAll and os.WriteFile succeed.
saveTokenToFile(dir, tokenID, cookie, ioOk) ==
    IF ioOk THEN With(dir, TokenFileName(tokenID), cookie) ELSE dir

AddFromCookie(cookie, ioOk) ==
    /\ ops < MaxOps
    /\ CanNotify
    /\ ops' = ops + 1
    /\ LET st == extractSessionToken(cookie)
           tokenID == generateTokenID(st)
       IN  IF st = ""
           THEN /\ ret' = [op |-> "AddFromCookie", val |-> <<>>, err |-> "no session-token"]
                /\ UNCHANGED <<files, tokens, heap, events>>
           ELSE IF tokenID \in DOMAIN tokens
           THEN /\ ret' = [op |-> "AddFromCookie", val |-> tokenID, err |-> "exists"]
                /\ UNCHANGED <<files, tokens, heap, events>>
           ELSE /\ tokens' = With(tokens, tokenID, Len(heap) + 1)
                /\ heap' = Append(heap, NewFlowToken(tokenID, st,
                                     IF ioOk THEN TokenFileName(tokenID) ELSE <<>>))
                /\ files' = saveTokenToFile(files, tokenID, cookie, ioOk)
                /\ events' = IF ioOk
                             THEN Notify(IF InDir(files, TokenFileName(tokenID))
                                         THEN "Write" ELSE "Create",
                                         TokenFileName(tokenID))
                             ELSE events
                /\ ret' = [op |-> "AddFromCookie", val |-> tokenID, err |-> ""]
    /\ UNCHANGED <<fileIndex, watching, wtPc, wtFile, pending, workerVars,
                   reqVars, pollVars, newVars>>

\* ------------------------------------------------------------ RemoveToken
\* The file RemoveToken deletes: the first entry of the listing whose name
\* starts with tokenID[:16]; <<>> when there is none.
RECURSIVE FirstWithPrefix(_, _)
FirstWithPrefix(names, prefix) ==
    IF names = <<>> THEN <<>>
    ELSE IF HasPrefix(Head(names), prefix) THEN Head(names)
    ELSE FirstWithPrefix(Tail(names), prefix)

RemoveToken(tokenID) ==
    /\ ops < MaxOps
    /\ CanNotify
    /\ ops' = ops + 1
    /\ IF tokenID \notin DOMAIN tokens
       THEN /\ ret' = [op |-> "RemoveToken", val |-> tokenID, err |-> "not found"]
            /\ UNCHANGED <<files, tokens, events>>
       ELSE LET f == FirstWithPrefix(ReadDir(files), Prefix16(tokenID))
            IN  /\ tokens' = Without(tokens, tokenID)
                /\ files' = IF f = <<>> THEN files ELSE Without(files, f)
                /\ events' = IF f = <<>> THEN events ELSE Notify("Remove", f)
                /\ ret' = [op |-> "RemoveToken", val |-> tokenID, err |-> ""]
    /\ UNCHANGED <<fileIndex, heap, watching, wtPc, wtFile, pending,
                   workerVars, reqVars, pollVars, newVars>>

\* ------------------------------------------------------------ the watcher
StartWatcher ==
    /\ ~watching
    /\ watching' = TRUE
    /\ UNCHANGED <<files, tokens, fileIndex, heap, events, wtPc, wtFile,
                   pending, ops, ret, workerVars, reqVars, pollVars, newVars>>

\* handleFileEvent's filter: hidden files and README.md are ignored.
Ignored(fileName) ==
    \/ HasPrefix(fileName, <<".">>)
    \/ EqualFold(fileName, README)

\* watchLoop takes an event of an ignored file: handleFileEvent returns.
handleFileEvent_Ignored ==
    /\ watching
    /\ wtPc = "wait"
    /\ events # <<>>
    /\ Ignored(Head(events).Name)
    /\ events' = Tail(events)
    /\ UNCHANGED <<files, tokens, fileIndex, heap, watching, wtPc, wtFile,
                   pending, ops, ret, workerVars, reqVars, pollVars, newVars>>

\* watchLoop takes a Create or Write event: handleFileEvent sleeps 100 ms
\* before it reads the file.
handleFileEvent_CreateWrite ==
    /\ watching
    /\ wtPc = "wait"
    /\ events # <<>>
    /\ ~Ignored(Head(events).Name)
    /\ \/ "Create" \in Head(events).Op
       \/ "Write" \in Head(events).Op
    /\ events' = Tail(events)
    /\ wtPc' = "sleep"
    /\ wtFile' = Head(events).Name
    /\ UNCHANGED <<files, tokens, fileIndex, heap, watching, pending, ops, ret,
                   workerVars, reqVars, pollVars, newVars>>

\* loadTokenFromFile, after the sleep: the pool map, file index, heap and
\* spawned refreshes it leaves.
loadTokenFromFile(fileName) ==
    LET same == [tokens |-> tokens, fileIndex |-> fileIndex, heap |-> heap,
                 pending |-> pending]
    IN  IF ~InDir(files, fileName) THEN same
        ELSE LET st == extractSessionToken(files[fileName])
                 tokenID == generateTokenID(st)
                 ok == fileName \in DOMAIN fileIndex
                 tk == IF ok THEN Without(tokens, fileIndex[fileName]) ELSE tokens
             IN  IF st = "" THEN same
                 ELSE IF ok /\ fileIndex[fileName] = tokenID THEN same
                 ELSE IF tokenID \notin DOMAIN tk
                      THEN [tokens |-> With(tk, tokenID, Len(heap) + 1),
                            fileIndex |-> With(fileIndex, fileName, tokenID),
                            heap |-> Append(heap, NewFlowToken(tokenID, st, fileName)),
                            pending |-> pending \cup {Len(heap) + 1}]
                      ELSE [same EXCEPT !.tokens = tk]

handleFileEvent_Load ==
    /\ wtPc = "sleep"
    /\ LET r == loadTokenFromFile(wtFile)
       IN  /\ tokens' = r.tokens
           /\ fileIndex' = r.fileIndex
           /\ heap' = r.heap
           /\ pending' = r.pending
    /\ wtPc' = "wait"
    /\ wtFile' = <<>>
    /\ UNCHANGED <<files, watching, events, ops, ret, workerVars, reqVars, pollVars, newVars>>

\* removeTokenByFile: the pool map and the file index it leaves.
removeTokenByFile(fileName) ==
    IF fileName \notin DOMAIN fileIndex
    THEN [tokens |-> tokens, fileIndex |-> fileIndex]
    ELSE [tokens |-> Without(tokens, fileIndex[fileName]),
          fileIndex |-> Without(fileIndex, fileName)]

\* watchLoop takes a Remove or Rename event.
handleFileEvent_RemoveRename ==
    /\ watching
    /\ wtPc = "wait"
    /\ events # <<>>
    /\ ~Ignored(Head(events).Name)
    /\ "Create" \notin Head(events).Op
    /\ "Write" \notin Head(events).Op
    /\ \/ "Remove" \in Head(events).Op
       \/ "Rename" \in Head(events).Op
    /\ LET r == removeTokenByFile(Head(events).Name)
       IN  /\ tokens' = r.tokens
           /\ fileIndex' = r.fileIndex
    /\ events' = Tail(events)
    /\ UNCHANGED <<files, heap, watching, wtPc, wtFile, pending, ops, ret,
                   workerVars, reqVars, pollVars, newVars>>

\* ------------------------------------------------------- token health
\* The FlowToken objects the pool map holds.
PoolTokens == {tokens[id] : id \in DOMAIN tokens}

\* ReadyCount's test of one token: !t.Disabled && t.ErrorCount < 3.
Ready(tok) == ~tok.Disabled /\ tok.ErrorCount < Threshold

ReadyCount == Cardinality({o \in PoolTokens : Ready(heap[o])})

\* Stats: the ready, disabled and errored counts over the tokens in `todo`.
RECURSIVE StatsOver(_, _)
StatsOver(todo, acc) ==
    IF todo = {} THEN acc
    ELSE LET o == CHOOSE x \in todo : TRUE
             t == heap[o]
         IN  StatsOver(todo \ {o},
                 IF t.Disabled THEN [acc EXCEPT !.disabled = @ + 1]
                 ELSE IF t.ErrorCount >= Threshold THEN [acc EXCEPT !.errored = @ + 1]
                 ELSE [acc EXCEPT !.ready = @ + 1])

Stats ==
    StatsOver(PoolTokens,
              [total |-> Cardinality(DOMAIN tokens), ready |-> 0, disabled |-> 0,
               errored |-> 0])

\* token.mu taken when the token is selected and asked for again by
\* ensureATValid and ensureProjectExists: the mutex is not reentrant.
LockedFromSelection(o) ==
    \/ \E r \in Reqs : reqTok[r] = o
                         /\ reqPc[r] \in {"ensureAT", "STToAT", "project", "CreateProject"}
    \/ flTok = o /\ flPc \in {"ensureAT", "STToAT", "project", "CreateProject"}

\* token.mu that excludes no one.
LockIgnored(o) == FALSE

\* token.mu is held across a network call only by ensureATValid (STToAT) and
\* ensureProjectExists (CreateProject); every other critical section is one
\* step.
Locked(o) ==
    \/ \E r \in Reqs : reqTok[r] = o /\ reqPc[r] \in {"STToAT", "CreateProject"}
    \/ flTok = o /\ flPc \in {"STToAT", "CreateProject"}

\* What FlowClient.STToAT answers on success: Expires is "" or a time more
\* than five minutes ahead.
Responses == {[AccessToken |-> "at", Expires |-> e] : e \in {"", "later"}}

\* token.AT == "" || time.Now().After(token.ATExpires.Add(-5*time.Minute))
needRefresh(tok) == tok.AT = "" \/ tok.expSoon

\* The clock passes the expiry margin of token o's access token.
TimePasses(o) ==
    /\ o \in 1..Len(heap)
    /\ heap[o].AT # ""
    /\ ~heap[o].expSoon
    /\ ~Locked(o)
    /\ heap' = [heap EXCEPT ![o].expSoon = TRUE]
    /\ UNCHANGED <<storeVars, pending, workerVars, reqVars,
                   pollVars, newVars>>

\* The assignments after a successful STToAT: AT, ATExpires (when Expires
\* parses), Email.
StoreAT(tok, resp) ==
    [tok EXCEPT !.AT = resp.AccessToken,
                !.expSoon = IF resp.Expires = "" THEN @ ELSE FALSE]

\* RefreshFailed with the threshold test written `>` for `>=`.
RefreshFailedLate(tok) ==
    [tok EXCEPT !.ErrorCount = @ + 1,
                !.Disabled = IF tok.ErrorCount + 1 > Threshold THEN TRUE ELSE @]

\* RefreshFailed without the threshold test: the count alone is raised.
RefreshFailedNoDisable(tok) == [tok EXCEPT !.ErrorCount = @ + 1]

\* refreshAllAT, STToAT failed: ErrorCount++, Disabled at the threshold.
RefreshFailed(tok) ==
    [tok EXCEPT !.ErrorCount = @ + 1,
                !.Disabled = IF tok.ErrorCount + 1 >= Threshold THEN TRUE ELSE @]

\* refreshAllAT and refreshSingleToken, STToAT succeeded.
RefreshSucceeded(tok, resp) ==
    [StoreAT(tok, resp) EXCEPT !.ErrorCount = 0, !.Disabled = FALSE]

\* refreshSingleToken, STToAT failed: ErrorCount++ and nothing else.
SingleRefreshFailed(tok) == [tok EXCEPT !.ErrorCount = @ + 1]

\* ------------------------------------------------------ the refresh worker
\* The ticker fires: refreshAllAT copies the pool's tokens under the lock.
refreshAllAT_Begin ==
    /\ wkPc = "idle"
    /\ wkPc' = "loop"
    /\ wkTodo' = PoolTokens
    /\ UNCHANGED <<storeVars, heap, pending, wkCur, reqVars,
                   pollVars, newVars>>

\* The loop visits token o: it needs no refresh.
refreshAllAT_Skip(o) ==
    /\ wkPc = "loop"
    /\ o \in wkTodo
    /\ ~Locked(o)
    /\ ~needRefresh(heap[o])
    /\ wkTodo' = wkTodo \ {o}
    /\ UNCHANGED <<storeVars, heap, pending, wkPc, wkCur,
                   reqVars, pollVars, newVars>>

\* The loop visits token o: it needs a refresh, STToAT is called.
refreshAllAT_Call(o) ==
    /\ wkPc = "loop"
    /\ o \in wkTodo
    /\ ~Locked(o)
    /\ needRefresh(heap[o])
    /\ wkTodo' = wkTodo \ {o}
    /\ wkPc' = "call"
    /\ wkCur' = o
    /\ UNCHANGED <<storeVars, heap, pending, reqVars, pollVars, newVars>>

\* STToAT returned an error.
refreshAllAT_Failed ==
    /\ wkPc = "call"
    /\ ~Locked(wkCur)
    /\ heap[wkCur].ErrorCount < MaxErrorCount
    /\ heap' = [heap EXCEPT ![wkCur] = RefreshFailed(@)]
    /\ wkPc' = "loop"
    /\ wkCur' = 0
    /\ UNCHANGED <<storeVars, pending, wkTodo, reqVars, pollVars, newVars>>

\* STToAT returned resp.
refreshAllAT_Refreshed(resp) ==
    /\ wkPc = "call"
    /\ ~Locked(wkCur)
    /\ heap' = [heap EXCEPT ![wkCur] = RefreshSucceeded(@, resp)]
    /\ wkPc' = "loop"
    /\ wkCur' = 0
    /\ UNCHANGED <<storeVars, pending, wkTodo, reqVars, pollVars, newVars>>

\* The loop is over; the worker waits for the next tick.
refreshAllAT_End ==
    /\ wkPc = "loop"
    /\ wkTodo = {}
    /\ wkPc' = "idle"
    /\ UNCHANGED <<storeVars, heap, pending, wkTodo, wkCur,
                   reqVars, pollVars, newVars>>

\* ----------------------------------------------------- refreshSingleToken
\* The goroutine loadTokenFromFile started for token o: STToAT failed.
refreshSingleToken_Failed(o) ==
    /\ o \in pending
    /\ ~Locked(o)
    /\ heap[o].ErrorCount < MaxErrorCount
    /\ heap' = [heap EXCEPT ![o] = SingleRefreshFailed(@)]
    /\ pending' = pending \ {o}
    /\ UNCHANGED <<storeVars, workerVars, reqVars, pollVars, newVars>>

\* The goroutine loadTokenFromFile started for token o: STToAT returned resp.
refreshSingleToken_Refreshed(o, resp) ==
    /\ o \in pending
    /\ ~Locked(o)
    /\ heap' = [heap EXCEPT ![o] = RefreshSucceeded(@, resp)]
    /\ pending' = pending \ {o}
    /\ UNCHANGED <<storeVars, workerVars, reqVars, pollVars, newVars>>

\* -------------------------------------------------------- HandleGeneration
Failure(error) == [Success |-> FALSE, Type |-> "", URL |-> "", Error |-> error]

Artifact(type, url) == [Success |-> TRUE, Type |-> type, URL |-> url, Error |-> ""]

\* modelConfig.Type of the models of the configuration table; "" stands for
\* a model the table does not hold.
ModelTypes == {"", "image", "video"}

\* SelectToken that looks at the disabled flag alone.
SelectTokenFlagOnly == {o \in PoolTokens : ~heap[o].Disabled}

\* FlowClient.SelectToken: any token of the pool that is not disabled and
\* whose error count is below the threshold; {} when there is none.
SelectToken == {o \in PoolTokens : Ready(heap[o])}

\* Request r returns result.
Return(r, result) ==
    /\ reqPc' = [reqPc EXCEPT ![r] = "idle"]
    /\ reqTok' = [reqTok EXCEPT ![r] = 0]
    /\ reqType' = [reqType EXCEPT ![r] = ""]
    /\ reqRes' = [reqRes EXCEPT ![r] = result]

\* Request r moves to step pc.
Goto(r, pc) ==
    /\ reqPc' = [reqPc EXCEPT ![r] = pc]
    /\ UNCHANGED <<reqTok, reqType, reqRes>>

\* HandleGeneration up to the token selection: the model is validated and a
\* token selected.
HandleGeneration_Select(r, type) ==
    /\ reqPc[r] = "idle"
    /\ IF type = "" THEN Return(r, Failure("unsupported model"))
       ELSE IF SelectToken = {} THEN Return(r, Failure("no token"))
       ELSE \E o \in SelectToken :
              /\ reqPc' = [reqPc EXCEPT ![r] = "ensureAT"]
              /\ reqTok' = [reqTok EXCEPT ![r] = o]
              /\ reqType' = [reqType EXCEPT ![r] = type]
              /\ reqRes' = [reqRes EXCEPT ![r] = NoResult]
    /\ UNCHANGED <<storeVars, heap, pending, workerVars, pollVars, newVars>>

\* ensureATValid takes token.mu: the access token is still valid, or STToAT
\* is called with the lock held.
ensureATValid_Lock(r) ==
    /\ reqPc[r] = "ensureAT"
    /\ ~Locked(reqTok[r])
    /\ Goto(r, IF needRefresh(heap[reqTok[r]]) THEN "STToAT" ELSE "project")
    /\ UNCHANGED <<storeVars, heap, pending, workerVars, pollVars, newVars>>

\* ensureATValid: STToAT failed, HandleGeneration returns.
ensureATValid_Failed(r) ==
    /\ reqPc[r] = "STToAT"
    /\ Return(r, Failure("auth"))
    /\ UNCHANGED <<storeVars, heap, pending, workerVars, pollVars, newVars>>

\* ensureATValid: STToAT returned resp.
ensureATValid_Refreshed(r, resp) ==
    /\ reqPc[r] = "STToAT"
    /\ heap' = [heap EXCEPT ![reqTok[r]] = StoreAT(@, resp)]
    /\ Goto(r, "project")
    /\ UNCHANGED <<storeVars, pending, workerVars, pollVars, newVars>>

\* ensureProjectExists takes token.mu: the project exists, or CreateProject
\* is called with the lock held.
ensureProjectExists_Lock(r) ==
    /\ reqPc[r] = "project"
    /\ ~Locked(reqTok[r])
    /\ Goto(r, IF heap[reqTok[r]].ProjectID # "" THEN "branch" ELSE "CreateProject")
    /\ UNCHANGED <<storeVars, heap, pending, workerVars, pollVars, newVars>>

\* ensureProjectExists: CreateProject failed, HandleGeneration returns.
ensureProjectExists_Failed(r) ==
    /\ reqPc[r] = "CreateProject"
    /\ Return(r, Failure("project"))
    /\ UNCHANGED <<storeVars, heap, pending, workerVars, pollVars, newVars>>

\* ensureProjectExists: CreateProject returned a project.
ensureProjectExists_Created(r) ==
    /\ reqPc[r] = "CreateProject"
    /\ heap' = [heap EXCEPT ![reqTok[r]].ProjectID = "project"]
    /\ Goto(r, "branch")
    /\ UNCHANGED <<storeVars, pending, workerVars, pollVars, newVars>>

\* GenerationFailed that counts the failure twice.
GenerationFailedTwice(tok) == [tok EXCEPT !.ErrorCount = @ + 2]

\* The bookkeeping of a failed generation call: ErrorCount++.
GenerationFailed(tok) == [tok EXCEPT !.ErrorCount = @ + 1]

\* The bookkeeping of a successful generation: LastUsed, ErrorCount = 0.
GenerationSucceeded(tok) == [tok EXCEPT !.LastUsed = 1, !.ErrorCount = 0]

\* handleImageGeneration: an upload fails, or the result has no URL.
handleImageGeneration_NoCount(r, error) ==
    /\ reqPc[r] = "branch"
    /\ reqType[r] = "image"
    /\ Return(r, Failure(error))
    /\ UNCHANGED <<storeVars, heap, pending, workerVars, pollVars, newVars>>

\* handleImageGeneration: GenerateImage returned an error.
handleImageGeneration_Failed(r) ==
    /\ reqPc[r] = "branch"
    /\ reqType[r] = "image"
    /\ ~Locked(reqTok[r])
    /\ heap[reqTok[r]].ErrorCount < MaxErrorCount
    /\ heap' = [heap EXCEPT ![reqTok[r]] = GenerationFailed(@)]
    /\ Return(r, Failure("generate"))
    /\ UNCHANGED <<storeVars, pending, workerVars, pollVars, newVars>>

\* handleImageGeneration: GenerateImage returned an image URL.
handleImageGeneration_Done(r) ==
    /\ reqPc[r] = "branch"
    /\ reqType[r] = "image"
    /\ ~Locked(reqTok[r])
    /\ heap' = [heap EXCEPT ![reqTok[r]] = GenerationSucceeded(@)]
    /\ Return(r, Artifact("image", "url"))
    /\ UNCHANGED <<storeVars, pending, workerVars, pollVars, newVars>>

\* handleVideoGeneration before the poll: the image count is invalid, an
\* upload fails, or the response has no task id.
handleVideoGeneration_NoCount(r, error) ==
    /\ reqPc[r] = "branch"
    /\ reqType[r] = "video"
    /\ Return(r, Failure(error))
    /\ UNCHANGED <<storeVars, heap, pending, workerVars, pollVars, newVars>>

\* handleVideoGeneration: the submission returned an error.
handleVideoGeneration_Failed(r) ==
    /\ reqPc[r] = "branch"
    /\ reqType[r] = "video"
    /\ ~Locked(reqTok[r])
    /\ heap[reqTok[r]].ErrorCount < MaxErrorCount
    /\ heap' = [heap EXCEPT ![reqTok[r]] = GenerationFailed(@)]
    /\ Return(r, Failure("submit"))
    /\ UNCHANGED <<storeVars, pending, workerVars, pollVars, newVars>>

\* handleVideoGeneration: the submission returned a task; pollVideoResult
\* is entered.
handleVideoGeneration_Submitted(r) ==
    /\ reqPc[r] = "branch"
    /\ reqType[r] = "video"
    /\ Goto(r, "poll")
    /\ UNCHANGED <<storeVars, heap, pending, workerVars, pollVars, newVars>>

\* handleVideoGeneration: pollVideoResult returned an error.
handleVideoGeneration_PollFailed(r, error) ==
    /\ reqPc[r] = "poll"
    /\ Return(r, Failure(error))
    /\ UNCHANGED <<storeVars, heap, pending, workerVars, pollVars, newVars>>

\* handleVideoGeneration: pollVideoResult returned the video URL.
handleVideoGeneration_Done(r) ==
    /\ reqPc[r] = "poll"
    /\ ~Locked(reqTok[r])
    /\ heap' = [heap EXCEPT ![reqTok[r]] = GenerationSucceeded(@)]
    /\ Return(r, Artifact("video", "url"))
    /\ UNCHANGED <<storeVars, pending, workerVars, pollVars, newVars>>

\* -------------------------------------------------------- pollVideoResult
\* What one CheckVideoStatus call answers: a transport error, or a status
\* with a video URL ("" when the response carries none).
TerminalErrors ==
    {"MEDIA_GENERATION_STATUS_ERROR_UNKNOWN", "MEDIA_GENERATION_STATUS_ERROR_NSFW",
     "MEDIA_GENERATION_STATUS_ERROR_PERSON", "MEDIA_GENERATION_STATUS_ERROR_SAFETY"}

StatusAnswers ==
    {[err |-> TRUE, Status |-> "", VideoURL |-> ""]}
    \cup {[err |-> FALSE, Status |-> "MEDIA_GENERATION_STATUS_PENDING", VideoURL |-> ""]}
    \cup {[err |-> FALSE, Status |-> "MEDIA_GENERATION_STATUS_SUCCESSFUL", VideoURL |-> u] :
            u \in {"", "video1", "video2"}}
    \cup {[err |-> FALSE, Status |-> s, VideoURL |-> ""] : s \in TerminalErrors}

\* createStreamChunk that never sets finish_reason.
createStreamChunkNoMarker(content, isFinish) ==
    IF isFinish
    THEN [content |-> content, reasoning_content |-> "", finish_reason |-> "null"]
    ELSE [content |-> "", reasoning_content |-> content, finish_reason |-> "null"]

\* createStreamChunk: the content goes to delta.content and finish_reason is
\* "stop" when isFinish, else the content goes to delta.reasoning_content
\* and finish_reason is null.
createStreamChunk(content, isFinish) ==
    IF isFinish
    THEN [content |-> content, reasoning_content |-> "", finish_reason |-> "stop"]
    ELSE [content |-> "", reasoning_content |-> content, finish_reason |-> "null"]

min(a, b) == IF a < b THEN a ELSE b

\* Progress without the cap.
ProgressUncapped(i, attempts) == (i * 100) \div attempts

\* progress := min(i*100/maxAttempts, 95)
Progress(i, attempts) == min((i * 100) \div attempts, 95)

\* PollLoop with the loop test `i <= maxAttempts`.
PollLoopOneMore(n) ==
    /\ pollI' = n
    /\ IF n <= maxAttempts
       THEN /\ pollPc' = "sleep"
            /\ pollRet' = pollRet
       ELSE /\ pollPc' = "done"
            /\ pollRet' = [url |-> "", err |-> "timeout"]

\* The loop test `i < maxAttempts` with i about to be n: the loop goes on
\* with a sleep, or pollVideoResult returns the timeout error.
PollLoop(n) ==
    /\ pollI' = n
    /\ IF n < maxAttempts
       THEN /\ pollPc' = "sleep"
            /\ pollRet' = pollRet
       ELSE /\ pollPc' = "done"
            /\ pollRet' = [url |-> "", err |-> "timeout"]

\* pollVideoResult is called: i := 0.
pollVideoResult_Enter ==
    /\ pollPc = "off"
    /\ PollLoop(0)
    /\ UNCHANGED <<storeVars, heap, pending, workerVars, reqVars, maxAttempts,
                   pollSleeps, pollHist, newVars>>

\* time.Sleep(pollInterval) at the head of the loop body.
pollVideoResult_Sleep ==
    /\ pollPc = "sleep"
    /\ pollSleeps' = pollSleeps + 1
    /\ pollPc' = "query"
    /\ UNCHANGED <<storeVars, heap, pending, workerVars, reqVars, maxAttempts,
                   pollI, pollHist, pollRet, newVars>>

\* pollVideoResult_Check returning on the SUCCESSFUL status whatever the URL.
pollVideoResult_CheckAnyURL(resp) ==
    /\ pollPc = "query"
    /\ pollHist' = IF pollLog THEN Append(pollHist, resp) ELSE pollHist
    /\ chunks' = IF stream /\ ~resp.err /\ pollI % 7 = 0
                 THEN Append(chunks, createStreamChunk(Progress(pollI, maxAttempts), FALSE))
                 ELSE chunks
    /\ IF resp.err THEN PollLoop(pollI + 1)
       ELSE IF resp.Status = "MEDIA_GENERATION_STATUS_SUCCESSFUL"
       THEN /\ pollPc' = "done"
            /\ pollRet' = [url |-> resp.VideoURL, err |-> ""]
            /\ pollI' = pollI
       ELSE IF resp.Status \in TerminalErrors
       THEN /\ pollPc' = "done"
            /\ pollRet' = [url |-> "", err |-> resp.Status]
            /\ pollI' = pollI
       ELSE PollLoop(pollI + 1)
    /\ UNCHANGED <<storeVars, heap, pending, workerVars, reqVars, maxAttempts,
                   pollSleeps, sideVars, pollLog, stream>>

\* The rest of the loop body: CheckVideoStatus answers resp.
pollVideoResult_Check(resp) ==
    /\ pollPc = "query"
    /\ pollHist' = IF pollLog THEN Append(pollHist, resp) ELSE pollHist
    /\ chunks' = IF stream /\ ~resp.err /\ pollI % 7 = 0
                 THEN Append(chunks, createStreamChunk(Progress(pollI, maxAttempts), FALSE))
                 ELSE chunks
    /\ IF resp.err THEN PollLoop(pollI + 1)
       ELSE IF resp.Status = "MEDIA_GENERATION_STATUS_SUCCESSFUL" /\ resp.VideoURL # ""
       THEN /\ pollPc' = "done"
            /\ pollRet' = [url |-> resp.VideoURL, err |-> ""]
            /\ pollI' = pollI
       ELSE IF resp.Status \in TerminalErrors
       THEN /\ pollPc' = "done"
            /\ pollRet' = [url |-> "", err |-> resp.Status]
            /\ pollI' = pollI
       ELSE PollLoop(pollI + 1)
    /\ UNCHANGED <<storeVars, heap, pending, workerVars, reqVars, maxAttempts,
                   pollSleeps, sideVars, pollLog, stream>>


\* ------------------------------- HandleGeneration, statement by statement
\* One request is followed through every statement that emits a chunk or
\* makes a transport call; pollVideoResult is the polling loop above.
poolVars == <<storeVars, pending, workerVars, reqVars, countVars, stopVars,
              statsVars>>

\* The model configurations GetFlowModelConfig answers, with the request's
\* number of images: Type "" stands for a model the table does not hold.
FlowRequests ==
    {NoRequest}
    \cup {[Type |-> "image", VideoType |-> "", Images |-> n, MinImages |-> 0,
           MaxImages |-> 0] : n \in 0..ImagesBound}
    \cup {[Type |-> "video", VideoType |-> "T2V", Images |-> n, MinImages |-> 0,
           MaxImages |-> 0] : n \in 0..ImagesBound}
    \cup {[Type |-> "video", VideoType |-> "I2V", Images |-> n, MinImages |-> 1,
           MaxImages |-> 2] : n \in 0..ImagesBound}
    \cup {[Type |-> "video", VideoType |-> "R2V", Images |-> n, MinImages |-> 0,
           MaxImages |-> 3] : n \in 0..ImagesBound}

\* What GetCredits answers in UserPaygateTier.
Tiers == {"PAYGATE_TIER_ONE", "PAYGATE_TIER_TWO"}

\* if streamCb != nil { streamCb(h.createStreamChunk(content, isFinish)) }
Emit(cs, content, isFinish) ==
    IF stream THEN Append(cs, createStreamChunk(content, isFinish)) ELSE cs

\* A transport call of the request, with the userTier it passes ("" when
\* the call takes none).
Call(op, tier) == [op |-> op, tier |-> tier]

\* The request returns result.
FlowReturn(result) ==
    /\ flPc' = "returned"
    /\ flRes' = result

\* HandleGeneration: the model is looked up and a token selected.
Flow_Select ==
    /\ flPc = "idle"
    /\ IF flReq.Type = ""
       THEN FlowReturn(Failure("unsupported model")) /\ flTok' = flTok
       ELSE IF SelectToken = {}
       THEN FlowReturn(Failure("no token")) /\ flTok' = flTok
       ELSE \E o \in SelectToken :
              /\ flTok' = o
              /\ flPc' = "ensureAT"
              /\ flRes' = flRes
    /\ UNCHANGED <<poolVars, heap, pollVars, pollLog, stream, chunks, flReq, flUp,
                   flTier, calls, crPc>>

\* ensureATValid takes token.mu and tests the access token.
Flow_ensureATValid ==
    /\ flPc = "ensureAT"
    /\ ~Locked(flTok)
    /\ flPc' = IF needRefresh(heap[flTok]) THEN "STToAT" ELSE "credits"
    /\ UNCHANGED <<poolVars, heap, pollVars, pollLog, stream, chunks, flTok, flReq,
                   flUp, flTier, flRes, calls, crPc>>

\* Flow_STToAT_Failed with the failure counted on the token.
Flow_STToAT_FailedCounted ==
    /\ flPc = "STToAT"
    /\ calls' = Append(calls, Call("STToAT", ""))
    /\ heap' = [heap EXCEPT ![flTok] = GenerationFailed(@)]
    /\ FlowReturn(Failure("auth"))
    /\ UNCHANGED <<poolVars, pollVars, pollLog, stream, chunks, flTok, flReq,
                   flUp, flTier, crPc>>

\* STToAT failed: ensureATValid returns the error, HandleGeneration returns.
Flow_STToAT_Failed ==
    /\ flPc = "STToAT"
    /\ calls' = Append(calls, Call("STToAT", ""))
    /\ FlowReturn(Failure("auth"))
    /\ UNCHANGED <<poolVars, heap, pollVars, pollLog, stream, chunks, flTok, flReq,
                   flUp, flTier, crPc>>

\* STToAT returned resp.
Flow_STToAT_Done(resp) ==
    /\ flPc = "STToAT"
    /\ calls' = Append(calls, Call("STToAT", ""))
    /\ heap' = [heap EXCEPT ![flTok] = StoreAT(@, resp)]
    /\ flPc' = "credits"
    /\ UNCHANGED <<poolVars, pollVars, pollLog, stream, chunks, flTok, flReq, flUp,
                   flTier, flRes, crPc>>

\* go h.updateTokenCredits(token)
Flow_GoCredits ==
    /\ flPc = "credits"
    /\ crPc' = "start"
    /\ flPc' = "project"
    /\ UNCHANGED <<poolVars, heap, pollVars, pollLog, stream, chunks, flTok, flReq,
                   flUp, flTier, flRes, calls>>

\* ensureProjectExists takes token.mu and tests ProjectID.
Flow_ensureProjectExists ==
    /\ flPc = "project"
    /\ ~Locked(flTok)
    /\ flPc' = IF heap[flTok].ProjectID # "" THEN "branch" ELSE "CreateProject"
    /\ UNCHANGED <<poolVars, heap, pollVars, pollLog, stream, chunks, flTok, flReq,
                   flUp, flTier, flRes, calls, crPc>>

Flow_CreateProject_Failed ==
    /\ flPc = "CreateProject"
    /\ calls' = Append(calls, Call("CreateProject", ""))
    /\ FlowReturn(Failure("project"))
    /\ UNCHANGED <<poolVars, heap, pollVars, pollLog, stream, chunks, flTok, flReq,
                   flUp, flTier, crPc>>

Flow_CreateProject_Done ==
    /\ flPc = "CreateProject"
    /\ calls' = Append(calls, Call("CreateProject", ""))
    /\ heap' = [heap EXCEPT ![flTok].ProjectID = "project"]
    /\ flPc' = "branch"
    /\ UNCHANGED <<poolVars, pollVars, pollLog, stream, chunks, flTok, flReq, flUp,
                   flTier, flRes, crPc>>

\* ------------------------------------------------- handleImageGeneration
\* Up to the first transport call: the start chunk, then the upload loop or
\* the generation call.
Image_Start ==
    /\ flPc = "branch"
    /\ flReq.Type = "image"
    /\ LET started == Emit(chunks, "image task started", FALSE)
       IN  IF flReq.Images > 0
           THEN /\ chunks' = Emit(started, "uploading images", FALSE)
                /\ flPc' = "UploadImage"
           ELSE /\ chunks' = Emit(started, "generating image", FALSE)
                /\ flPc' = "GenerateImage"
    /\ flUp' = 0
    /\ UNCHANGED <<poolVars, heap, pollVars, pollLog, stream, flTok, flReq, flTier,
                   flRes, calls, crPc>>

\* UploadImage failed.
Image_Upload_Failed ==
    /\ flPc = "UploadImage"
    /\ calls' = Append(calls, Call("UploadImage", ""))
    /\ FlowReturn(Failure("upload"))
    /\ UNCHANGED <<poolVars, heap, pollVars, pollLog, stream, chunks, flTok, flReq,
                   flUp, flTier, crPc>>

\* UploadImage returned a media id: the next image, or the generation call.
Image_Upload_Done ==
    /\ flPc = "UploadImage"
    /\ calls' = Append(calls, Call("UploadImage", ""))
    /\ flUp' = flUp + 1
    /\ LET uploaded == Emit(chunks, "image uploaded", FALSE)
       IN  IF flUp + 1 < flReq.Images
           THEN /\ chunks' = uploaded
                /\ flPc' = "UploadImage"
           ELSE /\ chunks' = Emit(uploaded, "generating image", FALSE)
                /\ flPc' = "GenerateImage"
    /\ UNCHANGED <<poolVars, heap, pollVars, pollLog, stream, flTok, flReq, flTier,
                   flRes, crPc>>

\* GenerateImage returned an error.
Image_Generate_Failed ==
    /\ flPc = "GenerateImage"
    /\ calls' = Append(calls, Call("GenerateImage", ""))
    /\ heap' = [heap EXCEPT ![flTok] = GenerationFailed(@)]
    /\ FlowReturn(Failure("generate"))
    /\ UNCHANGED <<poolVars, pollVars, pollLog, stream, chunks, flTok, flReq, flUp,
                   flTier, crPc>>

\* GenerateImage returned a result without image URL.
Image_Generate_Empty ==
    /\ flPc = "GenerateImage"
    /\ calls' = Append(calls, Call("GenerateImage", ""))
    /\ FlowReturn(Failure("empty"))
    /\ UNCHANGED <<poolVars, heap, pollVars, pollLog, stream, chunks, flTok, flReq,
                   flUp, flTier, crPc>>

\* GenerateImage returned the image URL url.
Image_Generate_Done(url) ==
    /\ flPc = "GenerateImage"
    /\ calls' = Append(calls, Call("GenerateImage", ""))
    /\ heap' = [heap EXCEPT ![flTok] = GenerationSucceeded(@)]
    /\ chunks' = Emit(chunks, url, TRUE)
    /\ FlowReturn(Artifact("image", url))
    /\ UNCHANGED <<poolVars, pollVars, pollLog, stream, flTok, flReq, flUp, flTier,
                   crPc>>

\* ------------------------------------------------- handleVideoGeneration
\* The image count test that lets an I2V request through only with MinImages
\* images or more.
ValidImageCountMinOnly(req) ==
    ~(req.VideoType = "I2V" /\ req.Images < req.MinImages)

\* The image count test of an I2V model.
ValidImageCount(req) ==
    ~(req.VideoType = "I2V"
        /\ (req.Images < req.MinImages \/ req.Images > req.MaxImages))

\* The statements before the submission call: the chunk, and userTier read
\* from the token.
ToSubmit(cs) ==
    /\ chunks' = Emit(cs, "submitting video task", FALSE)
    /\ flTier' = IF heap[flTok].UserPaygateTier = "" THEN "PAYGATE_TIER_ONE"
                 ELSE heap[flTok].UserPaygateTier
    /\ flPc' = "GenerateVideo"

\* Up to the first transport call: the start chunk, the image count test,
\* then an upload or the submission.
Video_Start ==
    /\ flPc = "branch"
    /\ flReq.Type = "video"
    /\ LET started == Emit(chunks, "video task started", FALSE)
           ignore == flReq.VideoType = "T2V" /\ flReq.Images > 0
           warned == IF ignore THEN Emit(started, "images ignored", FALSE) ELSE started
           req == IF ignore THEN [flReq EXCEPT !.Images = 0] ELSE flReq
       IN  /\ flReq' = req
           /\ IF ~ValidImageCount(req)
              THEN /\ chunks' = warned
                   /\ FlowReturn(Failure("image count"))
                   /\ flTier' = flTier
              ELSE IF req.VideoType = "I2V" /\ req.Images > 0
              THEN /\ chunks' = Emit(warned, "uploading start frame", FALSE)
                   /\ flPc' = "UploadStart"
                   /\ UNCHANGED <<flTier, flRes>>
              ELSE IF req.VideoType = "R2V" /\ req.Images > 0
              THEN /\ chunks' = Emit(warned, "uploading reference images", FALSE)
                   /\ flPc' = "UploadReference"
                   /\ UNCHANGED <<flTier, flRes>>
              ELSE ToSubmit(warned) /\ flRes' = flRes
    /\ flUp' = 0
    /\ UNCHANGED <<poolVars, heap, pollVars, pollLog, stream, flTok, calls, crPc>>

\* An UploadImage of the video branch failed.
Video_Upload_Failed ==
    /\ flPc \in {"UploadStart", "UploadEnd", "UploadReference"}
    /\ calls' = Append(calls, Call("UploadImage", ""))
    /\ FlowReturn(Failure("upload"))
    /\ UNCHANGED <<poolVars, heap, pollVars, pollLog, stream, chunks, flTok, flReq,
                   flUp, flTier, crPc>>

\* The start frame is uploaded: the end frame when there are two images.
Video_UploadStart_Done ==
    /\ flPc = "UploadStart"
    /\ calls' = Append(calls, Call("UploadImage", ""))
    /\ flUp' = flUp + 1
    /\ IF flReq.Images = 2
       THEN /\ chunks' = Emit(chunks, "uploading end frame", FALSE)
            /\ flPc' = "UploadEnd"
            /\ flTier' = flTier
       ELSE ToSubmit(chunks)
    /\ UNCHANGED <<poolVars, heap, pollVars, pollLog, stream, flTok, flReq, flRes,
                   crPc>>

\* The end frame is uploaded.
Video_UploadEnd_Done ==
    /\ flPc = "UploadEnd"
    /\ calls' = Append(calls, Call("UploadImage", ""))
    /\ flUp' = flUp + 1
    /\ ToSubmit(chunks)
    /\ UNCHANGED <<poolVars, heap, pollVars, pollLog, stream, flTok, flReq, flRes,
                   crPc>>

\* A reference image is uploaded: the next one, or the submission.
Video_UploadReference_Done ==
    /\ flPc = "UploadReference"
    /\ calls' = Append(calls, Call("UploadImage", ""))
    /\ flUp' = flUp + 1
    /\ IF flUp + 1 < flReq.Images
       THEN UNCHANGED <<chunks, flTier, flPc>>
       ELSE ToSubmit(chunks)
    /\ UNCHANGED <<poolVars, heap, pollVars, pollLog, stream, flTok, flReq, flRes,
                   crPc>>

\* The submission call of the model's video type.
GenerateVideo(videoType) ==
    CASE videoType = "I2V" -> "GenerateVideoStartEnd"
      [] videoType = "R2V" -> "GenerateVideoReferenceImages"
      [] OTHER -> "GenerateVideoText"

\* The submission returned an error.
Video_Submit_Failed ==
    /\ flPc = "GenerateVideo"
    /\ calls' = Append(calls, Call(GenerateVideo(flReq.VideoType), flTier))
    /\ heap' = [heap EXCEPT ![flTok] = GenerationFailed(@)]
    /\ FlowReturn(Failure("submit"))
    /\ UNCHANGED <<poolVars, pollVars, pollLog, stream, chunks, flTok, flReq, flUp,
                   flTier, crPc>>

\* The submission returned a response without task id.
Video_Submit_NoTask ==
    /\ flPc = "GenerateVideo"
    /\ calls' = Append(calls, Call(GenerateVideo(flReq.VideoType), flTier))
    /\ FlowReturn(Failure("no task"))
    /\ UNCHANGED <<poolVars, heap, pollVars, pollLog, stream, chunks, flTok, flReq,
                   flUp, flTier, crPc>>

\* The submission returned a task: pollVideoResult is called.
Video_Submit_Done ==
    /\ flPc = "GenerateVideo"
    /\ calls' = Append(calls, Call(GenerateVideo(flReq.VideoType), flTier))
    /\ chunks' = Emit(chunks, "generating video", FALSE)
    /\ flPc' = "poll"
    /\ UNCHANGED <<poolVars, heap, pollVars, pollLog, stream, flTok, flReq, flUp,
                   flTier, flRes, crPc>>

\* pollVideoResult returned an error.
Video_Poll_Failed ==
    /\ flPc = "poll"
    /\ pollPc = "done"
    /\ pollRet.err # ""
    /\ FlowReturn(Failure(pollRet.err))
    /\ UNCHANGED <<poolVars, heap, pollVars, pollLog, stream, chunks, flTok, flReq,
                   flUp, flTier, calls, crPc>>

\* pollVideoResult returned the video URL.
Video_Poll_Done ==
    /\ flPc = "poll"
    /\ pollPc = "done"
    /\ pollRet.err = ""
    /\ heap' = [heap EXCEPT ![flTok] = GenerationSucceeded(@)]
    /\ chunks' = Emit(chunks, pollRet.url, TRUE)
    /\ FlowReturn(Artifact("video", pollRet.url))
    /\ UNCHANGED <<poolVars, pollVars, pollLog, stream, flTok, flReq, flUp, flTier,
                   calls, crPc>>

\* ---------------------------------------------------- updateTokenCredits
\* The goroutine starts: it returns when the token has no access token.
updateTokenCredits_Start ==
    /\ crPc = "start"
    /\ crPc' = IF heap[flTok].AT = "" THEN "done" ELSE "GetCredits"
    /\ UNCHANGED <<poolVars, heap, pollVars, pollLog, stream, chunks, flPc, flTok,
                   flReq, flUp, flTier, flRes, calls>>

\* GetCredits failed: the error is logged.
updateTokenCredits_Failed ==
    /\ crPc = "GetCredits"
    /\ crPc' = "done"
    /\ UNCHANGED <<poolVars, heap, pollVars, pollLog, stream, chunks, flPc, flTok,
                   flReq, flUp, flTier, flRes, calls>>

\* GetCredits answered: Credits and UserPaygateTier are stored under token.mu.
updateTokenCredits_Store(tier) ==
    /\ crPc = "GetCredits"
    /\ ~Locked(flTok)
    /\ heap' = [heap EXCEPT ![flTok].UserPaygateTier = tier]
    /\ crPc' = "done"
    /\ UNCHANGED <<poolVars, pollVars, pollLog, stream, chunks, flPc, flTok, flReq,
                   flUp, flTier, flRes, calls>>

\* ------------------------------------------- ErrorCount++ under token.mu
\* token.mu.Lock(); token.ErrorCount++; token.mu.Unlock() of the four
\* failure paths, statement by statement, all on the first token.
countFrame == <<storeVars, pending, workerVars, reqVars, pollVars, pollLog, stream,
                chunks, flowVars, stopVars, statsVars>>

\* token.mu.Lock() never returning while another thread holds the mutex is
\* left out: it returns at once.
MutexIgnored(t) == TRUE

\* token.mu.Lock() returns when no thread holds the mutex.
MutexFree(t) == mu = ""

\* The call of thread t returns an error.
Inc_Failed(t) ==
    /\ incPc[t] = "call"
    /\ incPc' = [incPc EXCEPT ![t] = "failed"]
    /\ UNCHANGED <<countFrame, heap, mu, incTmp>>

\* token.mu.Lock()
Inc_Lock(t) ==
    /\ incPc[t] = "failed"
    /\ MutexFree(t)
    /\ mu' = t
    /\ incPc' = [incPc EXCEPT ![t] = "locked"]
    /\ UNCHANGED <<countFrame, heap, incTmp>>

\* token.ErrorCount++, the read.
Inc_Load(t) ==
    /\ incPc[t] = "locked"
    /\ incTmp' = [incTmp EXCEPT ![t] = heap[1].ErrorCount]
    /\ incPc' = [incPc EXCEPT ![t] = "loaded"]
    /\ UNCHANGED <<countFrame, heap, mu>>

\* token.ErrorCount++, the write; the refresh worker then tests the
\* threshold.
Inc_Store(t) ==
    /\ incPc[t] = "loaded"
    /\ LET read == [heap[1] EXCEPT !.ErrorCount = incTmp[t]]
       IN  heap' = [heap EXCEPT ![1] = IF t = "worker" THEN RefreshFailed(read)
                                       ELSE IF t = "single" THEN SingleRefreshFailed(read)
                                       ELSE GenerationFailed(read)]
    /\ incPc' = [incPc EXCEPT ![t] = "stored"]
    /\ UNCHANGED <<countFrame, mu, incTmp>>

\* token.mu.Unlock()
Inc_Unlock(t) ==
    /\ incPc[t] = "stored"
    /\ mu' = ""
    /\ incPc' = [incPc EXCEPT ![t] = "done"]
    /\ UNCHANGED <<countFrame, heap, incTmp>>

\* --------------------------------------- StartRefreshWorker, Stop, exits
\* time.NewTicker(interval): the ticker puts a tick in ticker.C, which holds
\* one; ticker.Stop() runs when the worker goroutine returns.
Ticker_Fire ==
    /\ ~tick
    /\ wkPc # "exited"
    /\ tick' = TRUE
    /\ UNCHANGED <<storeVars, heap, pending, workerVars, reqVars, pollVars, pollLog,
                   stream, chunks, flowVars, countVars, stPc, statsVars>>

\* The worker's select takes `case <-ticker.C` and refreshAllAT begins. A
\* select with several ready cases takes any of them, so the closed stopChan
\* does not keep this case from being taken.
Worker_Tick ==
    /\ wkPc = "idle"
    /\ tick
    /\ tick' = FALSE
    /\ wkPc' = "loop"
    /\ wkTodo' = PoolTokens
    /\ UNCHANGED <<storeVars, heap, pending, wkCur, reqVars, pollVars, pollLog,
                   stream, chunks, flowVars, countVars, stPc, statsVars>>

\* The worker's select takes `case <-p.stopChan` and the goroutine returns.
Worker_Exit ==
    /\ wkPc = "idle"
    /\ stPc # "off"
    /\ wkPc' = "exited"
    /\ UNCHANGED <<storeVars, heap, pending, wkTodo, wkCur, reqVars, pollVars,
                   pollLog, stream, chunks, flowVars, countVars, stopVars, statsVars>>

\* Stop: close(p.stopChan).
Stop_Close ==
    /\ stPc = "off"
    /\ stPc' = "closed"
    /\ UNCHANGED <<storeVars, heap, pending, workerVars, reqVars, pollVars, pollLog,
                   stream, chunks, flowVars, countVars, tick, statsVars>>

\* Stop: p.watcher.Close(), after which the watcher delivers no event, and
\* Stop returns.
Stop_WatcherClose ==
    /\ stPc = "closed"
    /\ stPc' = "returned"
    /\ watching' = FALSE
    /\ events' = <<>>
    /\ UNCHANGED <<files, tokens, fileIndex, wtPc, wtFile, ops, ret, heap, pending,
                   workerVars, reqVars, pollVars, pollLog, stream, chunks, flowVars,
                   countVars, tick, statsVars>>

\* watchLoop's select takes `case <-p.stopChan`, or finds watcher.Events
\* closed, and the goroutine returns.
watchLoop_Exit ==
    /\ wtPc = "wait"
    /\ stPc # "off"
    /\ wtPc' = "exited"
    /\ UNCHANGED <<files, tokens, fileIndex, watching, events, wtFile, ops, ret,
                   heap, pending, workerVars, reqVars, pollVars, newVars>>

\* ------------------------------------------------- Stats, lock by lock
\* p.mu is free for a writer: Stats, the reader followed, does not hold it.
PoolLockFree == statsPc \notin {"loop", "token"}

\* Stats: p.mu.RLock(), and the range over p.tokens begins.
Stats_Begin ==
    /\ statsPc = "off"
    /\ statsPc' = "loop"
    /\ statsTodo' = PoolTokens
    /\ UNCHANGED <<storeVars, heap, pending, workerVars, reqVars, pollVars, pollLog,
                   stream, chunks, flowVars, countVars, stopVars, statsCur>>

\* The range reaches token o: Stats calls t.mu.RLock().
Stats_Pick(o) ==
    /\ statsPc = "loop"
    /\ o \in statsTodo
    /\ statsPc' = "token"
    /\ statsCur' = o
    /\ UNCHANGED <<storeVars, heap, pending, workerVars, reqVars, pollVars, pollLog,
                   stream, chunks, flowVars, countVars, stopVars, statsTodo>>

\* t.mu.RLock() returns once no one holds t.mu; the fields are read and the
\* lock released.
Stats_Read ==
    /\ statsPc = "token"
    /\ ~Locked(statsCur)
    /\ statsPc' = "loop"
    /\ statsTodo' = statsTodo \ {statsCur}
    /\ statsCur' = 0
    /\ UNCHANGED <<storeVars, heap, pending, workerVars, reqVars, pollVars, pollLog,
                   stream, chunks, flowVars, countVars, stopVars>>

\* The range is over: Stats returns and its deferred p.mu.RUnlock() runs.
Stats_End ==
    /\ statsPc = "loop"
    /\ statsTodo = {}
    /\ statsPc' = "done"
    /\ UNCHANGED <<storeVars, heap, pending, workerVars, reqVars, pollVars, pollLog,
                   stream, chunks, flowVars, countVars, stopVars, statsTodo, statsCur>>

\* ------------------------------------------------------------------ Next
NextStore ==
    \/ \E name \in UserFiles, content \in Contents : EnvWriteFile(name, content)
    \/ \E name \in FileNames : EnvRemoveFile(name)
    \/ \E name \in FileNames : EnvRenameFile(name)
    \/ LoadFromDir
    \/ \E cookie \in Contents, ioOk \in BOOLEAN : AddFromCookie(cookie, ioOk)
    \/ \E tokenID \in IDs : RemoveToken(tokenID)
    \/ StartWatcher
    \/ handleFileEvent_Ignored
    \/ handleFileEvent_CreateWrite
    \/ handleFileEvent_Load
    \/ handleFileEvent_RemoveRename

SpecStore == Init /\ [][NextStore]_vars

\* The pool after LoadFromDir over a directory holding a.txt, StartWatcher,
\* and b.txt written and its Create event handled: token 1 from a.txt, token
\* 2 from b.txt with its refreshSingleToken goroutine started. The refresh
\* worker and the requests start from here.
InitServing ==
    /\ files = (FileA :> CookieA) @@ (FileB :> BareB)
    /\ tokens = (generateTokenID("stA") :> 1) @@ (generateTokenID("stB") :> 2)
    /\ fileIndex = (FileB :> generateTokenID("stB"))
    /\ heap = <<NewFlowToken(generateTokenID("stA"), "stA", FileA),
                NewFlowToken(generateTokenID("stB"), "stB", FileB)>>
    /\ watching = TRUE
    /\ events = <<>>
    /\ wtPc = "wait"
    /\ wtFile = <<>>
    /\ pending = {2}
    /\ ops = 2
    /\ ret = [op |-> "LoadFromDir", val |-> 1, err |-> ""]
    /\ Quiet
    /\ NoPoll
    /\ NoSide
    /\ pollLog = FALSE
    /\ stream = FALSE
    /\ maxAttempts = AttemptsBound

NextWorker ==
    \/ refreshAllAT_Begin
    \/ \E o \in 1..Len(heap) : refreshAllAT_Skip(o)
    \/ \E o \in 1..Len(heap) : refreshAllAT_Call(o)
    \/ refreshAllAT_Failed
    \/ \E resp \in Responses : refreshAllAT_Refreshed(resp)
    \/ refreshAllAT_End
    \/ \E o \in 1..Len(heap) : TimePasses(o)

NextRequest ==
    \E r \in Reqs :
       \/ \E type \in ModelTypes : HandleGeneration_Select(r, type)
       \/ ensureATValid_Lock(r)
       \/ ensureATValid_Failed(r)
       \/ \E resp \in Responses : ensureATValid_Refreshed(r, resp)
       \/ ensureProjectExists_Lock(r)
       \/ ensureProjectExists_Failed(r)
       \/ ensureProjectExists_Created(r)
       \/ \E error \in {"upload", "empty"} : handleImageGeneration_NoCount(r, error)
       \/ handleImageGeneration_Failed(r)
       \/ handleImageGeneration_Done(r)
       \/ \E error \in {"images", "upload", "no task"} :
             handleVideoGeneration_NoCount(r, error)
       \/ handleVideoGeneration_Failed(r)
       \/ handleVideoGeneration_Submitted(r)
       \/ \E error \in {"failed", "timeout"} : handleVideoGeneration_PollFailed(r, error)
       \/ handleVideoGeneration_Done(r)

NextSingle ==
    \/ \E o \in 1..Len(heap) : refreshSingleToken_Failed(o)
    \/ \E o \in 1..Len(heap), resp \in Responses : refreshSingleToken_Refreshed(o, resp)

Next == NextWorker \/ NextRequest \/ NextSingle

Spec == InitServing /\ [][Next]_vars

\* pollVideoResult alone, for every configured MaxPollAttempts up to the
\* bound (0 included: the configuration is not validated).
InitPoll ==
    /\ files = <<>>
    /\ EmptyPool
    /\ Quiet
    /\ NoPoll
    /\ NoSide
    /\ pollLog = TRUE
    /\ stream \in BOOLEAN
    /\ maxAttempts \in 0..AttemptsBound

NextPoll ==
    \/ pollVideoResult_Enter
    \/ pollVideoResult_Sleep
    \/ \E resp \in StatusAnswers : pollVideoResult_Check(resp)

SpecPoll == InitPoll /\ [][NextPoll]_vars

\* pollVideoResult called with a stream callback and MaxPollAttempts up to
\* ProgressAttempts; the answers are not kept.
InitProgress ==
    /\ files = <<>>
    /\ EmptyPool
    /\ Quiet
    /\ NoPoll
    /\ NoSide
    /\ pollLog = FALSE
    /\ stream = TRUE
    /\ maxAttempts \in 1..ProgressAttempts

SpecProgress == InitProgress /\ [][NextPoll]_vars

\* The goroutine that runs pollVideoResult keeps running: time.Sleep returns
\* and CheckVideoStatus returns (the HTTP client has a timeout).
SpecPollFair == SpecPoll /\ WF_vars(NextPoll)


\* The states of the one token a followed request finds in the pool: with or
\* without a fresh access token and a project, after no, one or three
\* failed generation calls.
FlowTokens ==
    {[NewFlowToken(generateTokenID("stA"), "stA", FileA) EXCEPT
        !.AT = at, !.expSoon = (at = ""), !.ErrorCount = e, !.ProjectID = pr] :
       at \in {"", "at"}, e \in {0, 1, Threshold}, pr \in {"", "project"}}

\* The pool after LoadFromDir over a directory holding a.txt and some use of
\* its token; one request, with every model configuration and image count.
InitFlow ==
    /\ files = (FileA :> CookieA)
    /\ tokens = (generateTokenID("stA") :> 1)
    /\ fileIndex = <<>>
    /\ \E tok \in FlowTokens : heap = <<tok>>
    /\ watching = FALSE
    /\ events = <<>>
    /\ wtPc = "wait"
    /\ wtFile = <<>>
    /\ pending = {}
    /\ ops = 1
    /\ ret = [op |-> "LoadFromDir", val |-> 1, err |-> ""]
    /\ Quiet
    /\ NoPoll
    /\ pollLog = TRUE
    /\ stream \in BOOLEAN
    /\ maxAttempts \in 1..FlowAttempts
    /\ flPc = "idle"
    /\ flTok = 0
    /\ flReq \in FlowRequests
    /\ flUp = 0
    /\ flTier = ""
    /\ flRes = NoResult
    /\ calls = <<>>
    /\ crPc = "off"
    /\ NoCount
    /\ NoStop
    /\ NoStats

NextFlow ==
    \/ Flow_Select
    \/ Flow_ensureATValid
    \/ Flow_STToAT_Failed
    \/ \E resp \in Responses : Flow_STToAT_Done(resp)
    \/ Flow_GoCredits
    \/ Flow_ensureProjectExists
    \/ Flow_CreateProject_Failed
    \/ Flow_CreateProject_Done
    \/ Image_Start
    \/ Image_Upload_Failed
    \/ Image_Upload_Done
    \/ Image_Generate_Failed
    \/ Image_Generate_Empty
    \/ \E url \in {"image1", "image2"} : Image_Generate_Done(url)
    \/ Video_Start
    \/ Video_Upload_Failed
    \/ Video_UploadStart_Done
    \/ Video_UploadEnd_Done
    \/ Video_UploadReference_Done
    \/ Video_Submit_Failed
    \/ Video_Submit_NoTask
    \/ Video_Submit_Done
    \/ (flPc = "poll" /\ NextPoll)
    \/ Video_Poll_Failed
    \/ Video_Poll_Done
    \/ updateTokenCredits_Start
    \/ updateTokenCredits_Failed
    \/ \E tier \in Tiers : updateTokenCredits_Store(tier)

SpecFlow == InitFlow /\ [][NextFlow]_vars

\* The pool holds one fresh token; each of the four threads has its call in
\* flight.
InitCount ==
    /\ files = (FileA :> CookieA)
    /\ tokens = (generateTokenID("stA") :> 1)
    /\ fileIndex = <<>>
    /\ heap = <<NewFlowToken(generateTokenID("stA"), "stA", FileA)>>
    /\ watching = FALSE
    /\ events = <<>>
    /\ wtPc = "wait"
    /\ wtFile = <<>>
    /\ pending = {}
    /\ ops = 1
    /\ ret = [op |-> "LoadFromDir", val |-> 1, err |-> ""]
    /\ Quiet
    /\ NoPoll
    /\ NoFlow
    /\ NoStop
    /\ NoStats
    /\ pollLog = FALSE
    /\ stream = FALSE
    /\ maxAttempts = AttemptsBound
    /\ mu = ""
    /\ incPc = [t \in Incrementers |-> "call"]
    /\ incTmp = [t \in Incrementers |-> 0]

NextCount ==
    \E t \in Incrementers :
       \/ Inc_Failed(t)
       \/ Inc_Lock(t)
       \/ Inc_Load(t)
       \/ Inc_Store(t)
       \/ Inc_Unlock(t)

SpecCount == InitCount /\ [][NextCount]_vars

\* The serving pool with its ticker, and Stop called at any moment.
NextStop ==
    \/ Ticker_Fire
    \/ Worker_Tick
    \/ Worker_Exit
    \/ Stop_Close
    \/ Stop_WatcherClose
    \/ watchLoop_Exit
    \/ \E o \in 1..Len(heap) : refreshAllAT_Skip(o)
    \/ \E o \in 1..Len(heap) : refreshAllAT_Call(o)
    \/ refreshAllAT_Failed
    \/ \E resp \in Responses : refreshAllAT_Refreshed(resp)
    \/ refreshAllAT_End
    \/ \E name \in UserFiles, content \in Contents : EnvWriteFile(name, content)
    \/ \E name \in FileNames : EnvRemoveFile(name)
    \/ handleFileEvent_Ignored
    \/ handleFileEvent_CreateWrite
    \/ handleFileEvent_Load
    \/ handleFileEvent_RemoveRename

SpecStop == InitServing /\ [][NextStop]_vars

\* Requests on the serving pool, a Stats call, and AddFromCookie, which
\* needs p.mu.Lock().
NextLock ==
    \/ NextRequest
    \/ Stats_Begin
    \/ \E o \in 1..Len(heap) : Stats_Pick(o)
    \/ Stats_Read
    \/ Stats_End
    \/ (PoolLockFree /\ \E cookie \in Contents, ioOk \in BOOLEAN :
                           AddFromCookie(cookie, ioOk))

SpecLock == InitServing /\ [][NextLock]_vars

\* Two requests at once on the pool of InitFlow: the coarse request, which
\* starts over when it has returned, and the request followed statement by
\* statement, here up to the end of ensureProjectExists.
NextProject ==
    \/ NextRequest
    \/ Flow_Select
    \/ Flow_ensureATValid
    \/ Flow_STToAT_Failed
    \/ \E resp \in Responses : Flow_STToAT_Done(resp)
    \/ Flow_GoCredits
    \/ Flow_ensureProjectExists
    \/ Flow_CreateProject_Failed
    \/ Flow_CreateProject_Done

SpecProject == InitFlow /\ [][NextProject]_vars

\* The threads that wait for locks: two requests on one token, each holding
\* token.mu across STToAT and CreateProject, and Stats, which asks for each
\* token's lock with p.mu held.
InitWait ==
    /\ InitFlow
    /\ stream = FALSE
    /\ maxAttempts = 1
    /\ flReq.Type = "image"
    /\ flReq.Images = 0

\* The request followed statement by statement, up to its branch.
Flow_ToBranch ==
    \/ Flow_Select
    \/ Flow_ensureATValid
    \/ Flow_STToAT_Failed
    \/ \E resp \in Responses : Flow_STToAT_Done(resp)
    \/ Flow_GoCredits
    \/ Flow_ensureProjectExists
    \/ Flow_CreateProject_Failed
    \/ Flow_CreateProject_Done

\* One call of Stats.
StatsCall ==
    \/ Stats_Begin
    \/ \E o \in 1..Len(heap) : Stats_Pick(o)
    \/ Stats_Read
    \/ Stats_End

\* Request r gets token.mu.
TakesLock(r) == ensureATValid_Lock(r) \/ ensureProjectExists_Lock(r)

\* The transport call request r is in returns.
CallReturns(r) ==
    \/ ensureATValid_Failed(r)
    \/ \E resp \in Responses : ensureATValid_Refreshed(r, resp)
    \/ ensureProjectExists_Failed(r)
    \/ ensureProjectExists_Created(r)

NextWait == NextRequest \/ Flow_ToBranch \/ StatsCall

SpecWait == InitWait /\ [][NextWait]_vars

\* Every transport call returns (the HTTP client has a timeout), a goroutine
\* that can run does run, and a goroutine blocked on a mutex gets it when it
\* is released again and again (sync.Mutex hands the lock to a starving
\* waiter; RWMutex.Unlock wakes the blocked readers).
SpecWaitFair ==
    /\ SpecWait
    /\ \A r \in Reqs : SF_vars(TakesLock(r) \/ CallReturns(r))
    /\ SF_vars(Flow_ToBranch)
    /\ SF_vars(StatsCall)

\* ================================================================ claims
Tokens == 1..Len(heap)

\* The refresh worker's STToAT call for token o returns in this step.
WorkerReturns(o) == wkPc = "call" /\ wkCur = o /\ wkPc' = "loop"

\* C1: a failed refresh by the refresh worker raises the error count by one
\* and leaves a ready credential ready until the count reaches 3: from count
\* 0 the first and second failure leave the flag and the ready count alone,
\* the third sets the disabled flag and lowers the ready count by one. A
\* successful refresh by the worker leaves count 0, the flag clear and the
\* credential counted as ready again.
C1_WorkerDisablesAtThree ==
    [][\A o \in Tokens :
         WorkerReturns(o) =>
           IF heap'[o].ErrorCount = 0
           THEN /\ ~heap'[o].Disabled
                /\ heap'[o].AT # ""
                /\ o \in PoolTokens =>
                     ReadyCount' = ReadyCount + (IF Ready(heap[o]) THEN 0 ELSE 1)
           ELSE /\ heap'[o].ErrorCount = heap[o].ErrorCount + 1
                /\ heap'[o].Disabled = (heap[o].Disabled \/ heap[o].ErrorCount >= 2)
                /\ (o \in PoolTokens /\ Ready(heap[o])) =>
                     ReadyCount' = ReadyCount - (IF heap[o].ErrorCount = 2 THEN 1 ELSE 0)
      ]_vars

\* A token that never had a successful refresh, disabled by the worker's
\* third failure, the other token of the pool still ready.
C1_Witness ==
    \E o \in PoolTokens :
       /\ heap[o].ErrorCount = 3
       /\ heap[o].Disabled
       /\ heap[o].AT = ""
       /\ wkPc = "loop"
       /\ ReadyCount = Cardinality(PoolTokens) - 1

\* C2 as stated: every credential whose error count is 3 or more has its
\* disabled flag set.
C2_CountImpliesDisabled ==
    \A o \in PoolTokens : heap[o].ErrorCount >= 3 => heap[o].Disabled

\* C2 as amended: a step that raises a credential's error count to 3 or more
\* sets the disabled flag when it is the refresh worker's failure path and
\* leaves the flag as it was otherwise (generation failure, watch-triggered
\* refresh failure); in every state a credential with count 3 or more is not
\* ready: Stats counts it disabled or errored, and its ready count is
\* ReadyCount's.
C2_WorkerAloneDisables ==
    /\ [][\A o \in Tokens :
            (heap'[o].ErrorCount >= 3 /\ heap'[o].ErrorCount > heap[o].ErrorCount) =>
               IF WorkerReturns(o) THEN heap'[o].Disabled
               ELSE heap'[o].Disabled = heap[o].Disabled
         ]_vars
    /\ [](LET s == Stats
          IN  /\ s.ready = ReadyCount
              /\ s.ready + s.disabled + s.errored = s.total
              /\ s.disabled + s.errored >=
                   Cardinality({o \in PoolTokens : heap[o].ErrorCount >= 3}))

\* A credential of the pool at count 3 with the flag clear (errored), and
\* another one disabled by the worker.
C2_Witness ==
    /\ \E o \in PoolTokens : heap[o].ErrorCount >= 3 /\ ~heap[o].Disabled
    /\ \E o \in PoolTokens : heap[o].ErrorCount >= 3 /\ heap[o].Disabled
    /\ Stats.errored = 1
    /\ Stats.disabled = 1

\* C3: the token a request goes on with after the selection is a token of
\* the pool that is not disabled and has fewer than 3 errors, and the request
\* returns "no token" exactly when the pool holds no such token.
C3_SelectQualifies ==
    [][\A r \in Reqs :
         /\ (reqPc[r] = "idle" /\ reqPc'[r] = "ensureAT") =>
              /\ reqTok'[r] \in PoolTokens
              /\ ~heap[reqTok'[r]].Disabled
              /\ heap[reqTok'[r]].ErrorCount < 3
         /\ (reqPc[r] = "idle" /\ reqPc'[r] = "idle" /\ reqRes'[r] # reqRes[r]
               /\ reqRes'[r].Error # "unsupported model") =>
              /\ reqRes'[r] = Failure("no token")
              /\ \A o \in PoolTokens : heap[o].Disabled \/ heap[o].ErrorCount >= 3
      ]_vars

\* A request went on with a token while the pool's other token is errored
\* but not disabled.
C3_Witness ==
    \E r \in Reqs :
       /\ reqPc[r] = "ensureAT"
       /\ \E o \in PoolTokens \ {reqTok[r]} :
            heap[o].ErrorCount >= 3 /\ ~heap[o].Disabled

\* The identity a file content yields: <<>> when it holds no session token.
IdentityOf(content) ==
    IF extractSessionToken(content) = "" THEN <<>>
    ELSE generateTokenID(extractSessionToken(content))

\* C4: when the watcher handles the Remove or Rename event of a file, no
\* credential read from or saved to that file stays in the pool and the file
\* name is no key of the file index, however the credential was registered.
C4_RemovedFileDropsToken ==
    [][handleFileEvent_RemoveRename =>
         /\ Head(events).Name \notin DOMAIN fileIndex'
         /\ \A id \in DOMAIN tokens' : heap'[tokens'[id]].from # Head(events).Name
      ]_vars

\* C5: when the watcher has handled a Create or Write event of a file that
\* holds a session token, the pool holds the identity of that token and the
\* file index maps the file to it; an identity the file was mapped to before
\* and that differs is out of the pool.
C5_WatchLoadRegisters ==
    [][(handleFileEvent_Load /\ InDir(files, wtFile)
          /\ IdentityOf(files[wtFile]) # <<>>) =>
         /\ IdentityOf(files[wtFile]) \in DOMAIN tokens'
         /\ wtFile \in DOMAIN fileIndex'
         /\ fileIndex'[wtFile] = IdentityOf(files[wtFile])
         /\ (wtFile \in DOMAIN fileIndex /\ fileIndex[wtFile] # IdentityOf(files[wtFile])) =>
              fileIndex[wtFile] \notin DOMAIN tokens'
      ]_vars

\* C6: LoadFromDir registers the identity of every file that holds a session
\* token, returns the number of identities it added and leaves the entries
\* the pool had alone; in every state a second LoadFromDir right after a
\* first one over the same directory would return 0 and change nothing; and
\* every key of the pool map is the ID of its token, so no two entries share
\* an identity.
C6_LoadIdempotent ==
    /\ [][LoadFromDir =>
            /\ \A f \in DOMAIN files :
                 IdentityOf(files[f]) # <<>> => IdentityOf(files[f]) \in DOMAIN tokens'
            /\ ret'.val = Cardinality(DOMAIN tokens') - Cardinality(DOMAIN tokens)
            /\ \A id \in DOMAIN tokens : tokens'[id] = tokens[id]
            /\ Cardinality(DOMAIN tokens') <=
                 Cardinality(DOMAIN tokens \cup
                             ({IdentityOf(files[f]) : f \in DOMAIN files} \ {<<>>}))
         ]_vars
    /\ [](LET once == LoadFiles(ReadDir(files), files, tokens, heap, 0)
              twice == LoadFiles(ReadDir(files), files, once.tokens, once.heap, 0)
          IN  /\ twice.loaded = 0
              /\ twice.tokens = once.tokens
              /\ twice.heap = once.heap)
    /\ [](\A id \in DOMAIN tokens : heap[tokens[id]].ID = id)

\* LoadFromDir has just returned 0 over a directory whose two files hold the
\* same session token, the pool holding that one identity.
C6_Witness ==
    /\ ret = [op |-> "LoadFromDir", val |-> 0, err |-> ""]
    /\ DOMAIN files = {FileA, FileB}
    /\ files[FileA] = BareB
    /\ files[FileB] = BareB
    /\ DOMAIN tokens = {generateTokenID("stB")}

\* C7: after RemoveToken(tokenID) returns without error the identity is out
\* of the pool and no file of the directory holds its session token, so a
\* LoadFromDir that follows does not register it again.
C7_RemoveDeletesBackingFile ==
    [][\A tokenID \in IDs :
         (RemoveToken(tokenID) /\ ret'.err = "") =>
           /\ tokenID \notin DOMAIN tokens'
           /\ \A f \in DOMAIN files' : IdentityOf(files'[f]) # tokenID
           /\ tokenID \notin
                DOMAIN LoadFiles(ReadDir(files'), files', tokens', heap', 0).tokens
      ]_vars

\* C8: AddFromCookie either returns an error and leaves the pool and the
\* directory as they were, or returns the identity having registered it and
\* written the cookie to its file <tokenID[:16]>.txt.
C8_AddAllOrNothing ==
    [][\A cookie \in Contents, ioOk \in BOOLEAN :
         AddFromCookie(cookie, ioOk) =>
           \/ /\ ret'.err # ""
              /\ tokens' = tokens
              /\ heap' = heap
              /\ files' = files
           \/ /\ ret'.err = ""
              /\ ret'.val \in DOMAIN tokens'
              /\ InDir(files', TokenFileName(ret'.val))
              /\ files'[TokenFileName(ret'.val)] = cookie
      ]_vars

\* An answer is a terminal success: SUCCESSFUL with a video URL.
IsSuccess(a) ==
    ~a.err /\ a.Status = "MEDIA_GENERATION_STATUS_SUCCESSFUL" /\ a.VideoURL # ""

\* An answer is terminal: a terminal success or a terminal error status.
IsTerminal(a) == IsSuccess(a) \/ (~a.err /\ a.Status \in TerminalErrors)

\* C9: when the N-th status query is the first to answer SUCCESSFUL with a
\* non-empty URL and no earlier query answered a terminal error,
\* pollVideoResult has returned that URL after exactly N queries and N
\* sleeps; every query follows a sleep; a transport failure, a non-terminal
\* status and SUCCESSFUL with an empty URL each count as one try and leave
\* the loop running; and a URL is returned only in that case.
C9_PollReturnsFirstSuccess ==
    /\ \A n \in 1..Len(pollHist) :
         (IsSuccess(pollHist[n]) /\ n <= maxAttempts
            /\ \A k \in 1..(n - 1) : ~IsTerminal(pollHist[k])) =>
           /\ Len(pollHist) = n
           /\ pollSleeps = n
           /\ pollPc = "done"
           /\ pollRet = [url |-> pollHist[n].VideoURL, err |-> ""]
    /\ pollSleeps = Len(pollHist) + (IF pollPc = "query" THEN 1 ELSE 0)
    /\ pollPc \in {"sleep", "query"} =>
         /\ pollI = Len(pollHist)
         /\ \A k \in 1..Len(pollHist) : ~IsTerminal(pollHist[k])
    /\ (pollPc = "done" /\ pollRet.err = "") =>
         /\ pollHist # <<>>
         /\ IsSuccess(pollHist[Len(pollHist)])
         /\ pollRet.url = pollHist[Len(pollHist)].VideoURL

\* pollVideoResult has returned the URL of the fourth answer, after a
\* transport failure, a PENDING status and a SUCCESSFUL without URL.
C9_Witness ==
    /\ pollPc = "done"
    /\ Len(pollHist) = 4
    /\ pollHist[1].err
    /\ pollHist[2].Status = "MEDIA_GENERATION_STATUS_PENDING"
    /\ pollHist[3].Status = "MEDIA_GENERATION_STATUS_SUCCESSFUL"
    /\ pollHist[3].VideoURL = ""
    /\ pollHist[4].VideoURL = "video2"
    /\ pollRet = [url |-> "video2", err |-> ""]
    /\ pollSleeps = 4

\* C10: pollVideoResult returns in every run; it never makes more than
\* MaxPollAttempts status queries; and when no query answered a terminal
\* status it has made exactly MaxPollAttempts queries when it returns, and
\* returns the timeout error.
C10_PollTerminates ==
    /\ <>(pollPc = "done")
    /\ [](Len(pollHist) <= maxAttempts)
    /\ []((pollPc = "done" /\ \A k \in 1..Len(pollHist) : ~IsTerminal(pollHist[k])) =>
            /\ Len(pollHist) = maxAttempts
            /\ pollRet = [url |-> "", err |-> "timeout"])

\* pollVideoResult has returned the timeout error after AttemptsBound
\* queries that all failed at transport level.
C10_Witness ==
    /\ pollPc = "done"
    /\ maxAttempts = AttemptsBound
    /\ Len(pollHist) = AttemptsBound
    /\ \A k \in 1..Len(pollHist) : pollHist[k].err
    /\ pollRet = [url |-> "", err |-> "timeout"]

\* The request is for a start/end-frame model and its image count is
\* outside the model's [MinImages, MaxImages].
OutOfRange(req) ==
    req.VideoType = "I2V" /\ (req.Images < req.MinImages \/ req.Images > req.MaxImages)

\* C11: a request for an I2V model whose image count is outside
\* [MinImages, MaxImages] returns the validation failure at the image count
\* test without making a call there, and at no time has such a request made
\* an upload, a submission or a status query or got a success result.
C11_ValidationBeforeCalls ==
    /\ [][(Video_Start /\ OutOfRange(flReq)) =>
            /\ flPc' = "returned"
            /\ flRes' = Failure("image count")
            /\ calls' = calls
         ]_vars
    /\ [](OutOfRange(flReq) =>
            /\ \A k \in 1..Len(calls) : calls[k].op \in {"STToAT", "CreateProject"}
            /\ pollPc = "off"
            /\ pollHist = <<>>
            /\ ~flRes.Success)

\* A streamed I2V request with more images than MaxImages has returned the
\* validation failure, having exchanged the session token and created the
\* project.
C11_Witness ==
    /\ flPc = "returned"
    /\ flRes = Failure("image count")
    /\ flReq.VideoType = "I2V"
    /\ flReq.Images > flReq.MaxImages
    /\ calls = <<Call("STToAT", ""), Call("CreateProject", "")>>
    /\ Len(chunks) = 1

\* The threads whose failure is recorded: their ErrorCount++ has written.
Recorded == {t \in Incrementers : incPc[t] \in {"stored", "done"}}

\* C12: in every interleaving of the threads that record a failure against
\* one token, the token's ErrorCount is the number of failures recorded so
\* far, so it is the number of failed calls once every thread is through;
\* and at most one thread is between token.mu.Lock() and Unlock().
C12_NoLostIncrement ==
    /\ heap[1].ErrorCount = Cardinality(Recorded)
    /\ (\A t \in Incrementers : incPc[t] = "done") =>
         heap[1].ErrorCount = Cardinality(Incrementers)
    /\ Cardinality({t \in Incrementers : incPc[t] \in {"locked", "loaded", "stored"}}) <= 1

\* The four threads are through and the count is four; the worker's
\* increment was not the last one, so the token is not disabled.
C12_Witness ==
    /\ \A t \in Incrementers : incPc[t] = "done"
    /\ heap[1].ErrorCount = 4
    /\ ~heap[1].Disabled

\* The chunks that carry the terminal marker: finish_reason "stop".
Terminal == {k \in 1..Len(chunks) : chunks[k].finish_reason = "stop"}

\* C13: at most one chunk of a request carries the terminal marker; when
\* there is one it is the last chunk, the request has returned a success
\* and the chunk's content is the URL of the result; every other chunk has
\* no content (it is narration); a streamed request that returned a
\* success has emitted one; a request that does not stream emits nothing.
C13_OneTerminalChunk ==
    /\ Cardinality(Terminal) <= 1
    /\ \A k \in Terminal :
         /\ k = Len(chunks)
         /\ flPc = "returned"
         /\ flRes.Success
         /\ flRes.URL # ""
         /\ chunks[k].content = flRes.URL
    /\ \A k \in (1..Len(chunks)) \ Terminal : chunks[k].content = ""
    /\ (stream /\ flPc = "returned" /\ flRes.Success) => Terminal # {}
    /\ ~stream => chunks = <<>>

\* A streamed text-to-video request has returned the video of the second
\* status query, after the start, submission, generation and progress
\* chunks.
C13_Witness ==
    /\ stream
    /\ flPc = "returned"
    /\ flReq.VideoType = "T2V"
    /\ flRes = Artifact("video", "video2")
    /\ Len(pollHist) = 2
    /\ Len(chunks) = 5
    /\ Terminal = {5}
    /\ chunks[4].reasoning_content = 0

\* The positions of a request inside handleImageGeneration and
\* handleVideoGeneration.
BranchPcs ==
    {"branch", "UploadImage", "GenerateImage", "UploadStart", "UploadEnd",
     "UploadReference", "GenerateVideo", "poll"}

\* The branch returns a failure result in this step.
BranchFails == flPc \in BranchPcs /\ flPc' = "returned" /\ ~flRes'.Success

\* The branch returns a success result in this step.
BranchSucceeds == flPc \in BranchPcs /\ flPc' = "returned" /\ flRes'.Success

\* C17 as stated: every failure result of the image or video branch raises
\* the token's ErrorCount by exactly one, and every success result sets it
\* to 0 and updates LastUsed.
C17_EveryFailureCounts ==
    [][/\ BranchFails => heap'[flTok].ErrorCount = heap[flTok].ErrorCount + 1
       /\ BranchSucceeds => /\ heap'[flTok].ErrorCount = 0
                            /\ heap'[flTok].LastUsed = 1]_vars

\* C17 amended: a failure result raises ErrorCount by exactly one when it is
\* the error of the generation call (GenerateImage, or the video submission)
\* and leaves the token as it was otherwise (failed upload, image count,
\* result without URL, response without task id, polling timeout, generation
\* error reported by a status query); every success result sets ErrorCount
\* to 0 and updates LastUsed.
C17_OnlyFailedCallCounts ==
    [][/\ BranchFails =>
            IF flRes' \in {Failure("generate"), Failure("submit")}
            THEN heap'[flTok] = [heap[flTok] EXCEPT !.ErrorCount = @ + 1]
            ELSE heap'[flTok] = heap[flTok]
       /\ BranchSucceeds => /\ heap'[flTok].ErrorCount = 0
                            /\ heap'[flTok].LastUsed = 1]_vars

\* A video request on a token with one earlier failure has returned the
\* error of the submission, and the token counts two.
C17_Witness ==
    /\ flPc = "returned"
    /\ flRes = Failure("submit")
    /\ flReq.Type = "video"
    /\ heap[flTok].ErrorCount = 2

\* C18: when STToAT fails in ensureATValid the request returns the
\* authentication failure and leaves the token as it was; the request has
\* then made the one STToAT call and nothing else (no quota goroutine, no
\* CreateProject, upload, generation or status call, no chunk), and nothing
\* happens after it has returned.
C18_AuthFailureLeavesToken ==
    /\ [][(flPc = "STToAT" /\ flPc' = "returned") =>
              /\ flRes' = Failure("auth")
              /\ heap' = heap]_vars
    /\ [](flPc = "returned" /\ flRes = Failure("auth") =>
              /\ calls = <<Call("STToAT", "")>>
              /\ crPc = "off"
              /\ pollHist = <<>>
              /\ chunks = <<>>)
    /\ [][(flPc = "returned" /\ flRes = Failure("auth")) => UNCHANGED vars]_vars

\* A request on a token without access token and with one earlier failure
\* has returned the authentication failure.
C18_Witness ==
    /\ flPc = "returned"
    /\ flRes = Failure("auth")
    /\ heap[flTok].AT = ""
    /\ heap[flTok].ErrorCount = 1
    /\ calls = <<Call("STToAT", "")>>

\* The userTier handleVideoGeneration passes for a token that has no stored
\* tier, as every token of InitFlow.
DefaultTier == "PAYGATE_TIER_ONE"

\* C19: the quota goroutine does not show in the request: the calls the
\* request makes carry the arguments they carry when the goroutine has not
\* run or has failed, that is, every submission passes the tier computed
\* from the token as it was when the request began.
C19_QuotaQueryInvisible ==
    \A k \in 1..Len(calls) : calls[k].tier \in {"", DefaultTier}

\* The value a progress chunk carries.
Value(k) == chunks[k].reasoning_content

\* C20 as stated: of the status queries of a streamed polling loop, counted
\* from 1, exactly the 7th, 14th, 21st, ... emit a progress chunk, and the
\* chunk carries min(attempt*100/MaxPollAttempts, 95).
C20_EverySeventhAttempt ==
    [][pollPc = "query" =>
         LET attempt == pollI + 1
             value == IF (attempt * 100) \div maxAttempts < 95
                      THEN (attempt * 100) \div maxAttempts ELSE 95
         IN  IF attempt % 7 = 0
             THEN chunks' = Append(chunks, createStreamChunk(value, FALSE))
             ELSE chunks' = chunks]_vars

\* C20 amended: with i the number of status queries made before (the loop
\* index), a progress chunk is emitted only by a query with i a multiple of
\* 7 (the 1st, 8th, 15th, ... query), by each such query that CheckVideoStatus
\* answers without a transport error, and it carries
\* min(i*100/MaxPollAttempts, 95); no chunk carries more than 95 and the
\* values never decrease.
C20_EverySeventhIndex ==
    /\ [][LET value == IF (pollI * 100) \div maxAttempts < 95
                       THEN (pollI * 100) \div maxAttempts ELSE 95
          IN  /\ chunks' # chunks =>
                   /\ pollPc = "query"
                   /\ pollI % 7 = 0
                   /\ chunks' = Append(chunks, createStreamChunk(value, FALSE))
              /\ \A resp \in StatusAnswers :
                   (pollVideoResult_Check(resp) /\ ~resp.err /\ pollI % 7 = 0)
                       => chunks' # chunks
              /\ \A resp \in StatusAnswers :
                   (pollVideoResult_Check(resp) /\ resp.err) => chunks' = chunks]_vars
    /\ [](\A k \in 1..Len(chunks) :
              /\ Value(k) <= 95
              /\ k > 1 => Value(k - 1) <= Value(k))

\* A loop of 29 attempts is at its 29th query or later; the queries 1, 8, 15,
\* 22 and 29 have emitted four chunks between them (one failed at transport
\* level) and the last chunk carries the capped 95 for 2800/29 = 96.
C20_Witness ==
    /\ maxAttempts = 29
    /\ pollI >= 28
    /\ Len(chunks) = 4
    /\ Value(4) = 95
    /\ Value(1) = 0

\* C14: once Stop has returned, the refresh worker begins no refresh round
\* and watchLoop takes no file event. (That both goroutines then return is
\* the liveness half of C14; the formula is its safety half.)
C14_NoIterationAfterStop ==
    [][stPc = "returned" =>
          /\ ~(wkPc = "idle" /\ wkPc' = "loop")
          /\ ~(wtPc = "wait" /\ Len(events') < Len(events))]_vars

\* C15: no thread that holds the pool lock waits for a transport call: Stats,
\* holding p.mu.RLock, is never at the t.mu.RLock() of a token whose lock a
\* request holds across STToAT or CreateProject.
C15_TransportNeverBlocksPool ==
    ~(statsPc = "token" /\ Locked(statsCur))

\* handleVideoGeneration reads token.UserPaygateTier in this step; it holds
\* no lock when it does.
ReadsTier == flPc # "GenerateVideo" /\ flPc' = "GenerateVideo"

\* The updateTokenCredits goroutine has its write of token.UserPaygateTier
\* ahead of it.
TierWriteAhead == crPc \in {"start", "GetCredits"}

\* C16: every access to a token's mutable fields is made under the token's
\* lock, so no field is read without the lock while another thread is to
\* write it: the request never reads UserPaygateTier, which it does without
\* the lock, while the quota goroutine it started still has its write of the
\* field ahead.
C16_FieldAccessUnderLock ==
    [][ReadsTier => ~TierWriteAhead]_vars

\* The requests that are inside the CreateProject call of token o.
Creating(o) ==
    {r \in Reqs : reqTok[r] = o /\ reqPc[r] = "CreateProject"}
    \cup (IF flTok = o /\ flPc = "CreateProject" THEN {"flow"} ELSE {})

\* C21: CreateProject is called for a token only while the token has no
\* ProjectID, and by one request at a time, so that a call that succeeds
\* finds ProjectID empty and at most one succeeds; a ProjectID once set is
\* never changed or cleared.
C21_ProjectCreatedOnce ==
    /\ [](\A o \in 1..Len(heap) :
             /\ Creating(o) # {} => heap[o].ProjectID = ""
             /\ Cardinality(Creating(o)) <= 1)
    /\ [][\A o \in 1..Len(heap) :
             /\ heap[o].ProjectID # "" => heap'[o].ProjectID = heap[o].ProjectID
             /\ heap'[o].ProjectID # heap[o].ProjectID => Creating(o) # {}]_vars

\* Both requests are past ensureProjectExists on the same token: the one
\* followed statement by statement made the CreateProject call, the other
\* found the ProjectID cached or is in a later round.
C21_Witness ==
    /\ flPc = "branch"
    /\ reqPc["r1"] = "branch"
    /\ reqTok["r1"] = flTok
    /\ heap[flTok].ProjectID = "project"
    /\ \E k \in 1..Len(calls) : calls[k].op = "CreateProject"

\* C22: every token ID that the file index holds as a value is a key of the
\* pool map: no file name stays mapped to a token that has left the pool.
C22_IndexValuesInPool ==
    \A fileName \in DOMAIN fileIndex : fileIndex[fileName] \in DOMAIN tokens

\* The steps of HandleGeneration from the selection of the token to the end
\* of ensureProjectExists: waiting for token.mu, or holding it in a call.
InCall == {"ensureAT", "STToAT", "project", "CreateProject"}

\* C23: no thread waits for a lock forever when every transport call
\* returns: Stats, which holds p.mu and waits for token locks, always
\* returns (so p.mu is always released to the pool operations that wait for
\* it), and each of two requests on the same token always gets past
\* ensureATValid and ensureProjectExists.
C23_NoThreadWaitsForever ==
    /\ (statsPc \in {"loop", "token"}) ~> (statsPc = "done")
    /\ (flPc \in InCall) ~> (flPc \in {"branch", "returned"})
    /\ \A r \in Reqs : (reqPc[r] \in InCall) ~> (reqPc[r] \in {"branch", "idle"})

\* Stats holds p.mu and waits for the lock of the token that one request
\* holds inside STToAT, and the other request waits for the same lock.
C23_Witness ==
    /\ statsPc = "token"
    /\ Locked(statsCur)
    /\ flTok = statsCur
    /\ flPc = "STToAT"
    /\ reqPc["r1"] = "ensureAT"
    /\ reqTok["r1"] = flTok

====
